---- MODULE Spec2Model ----
(***************************************************************************)
(* Model of the document redaction engine (src/redaction/src):             *)
(* RedactionEngine.redact_document and its per-format appliers             *)
(* (_redact_pdf, _redact_docx, _redact_text) and _verify_redaction,        *)
(* FileHandler's validation and type resolution, the layout analysis of    *)
(* AdvancedPDFTextExtractor (columns, reading zones, text blocks) and the  *)
(* session state and script run of MultiDocRedactionApp.                   *)
(*                                                                         *)
(* A Python str is modelled as a sequence of one-character strings.        *)
(* Offsets are 0-based as in Python; TLA+ sequences are 1-based, so the    *)
(* character at Python offset i is s[i + 1].                               *)
(***************************************************************************)
EXTENDS Integers, Sequences, FiniteSets, TLC

VARIABLES
    pc,                \* position of the modelled call
    content,           \* _redact_text: the text read from file_path
    suggestions,       \* the accepted redaction list (list of dicts) handed in
    redactions,        \* _redact_text: the (start, end) spans, in rewrite order
    redacted_content,  \* _redact_text: the text written to output_path
    origin,            \* for every character of redacted_content, the 1-based
                       \* index of the input character it is, 0 for marker text
    file_ext,          \* redact_document: the extension of file_path
    output_path,       \* redact_document: the output_path argument
    fs,                \* the filesystem: what each path holds
    fs_before,         \* the filesystem when redact_document was called
    pages_done,        \* _redact_pdf: pages whose redactions have been applied
    verification,      \* _verify_redaction: "not_run", "passed" or "failed"
    io_failed,         \* whether the environment failed an I/O step of the call
    result             \* what redact_document gave its caller

VARIABLES
    path_exts,         \* FileHandler: the extensions the name of the path ends
                       \* in, in order (<<".txt", ".gz">> for x.txt.gz)
    path_exists,       \* FileHandler: os.path.exists(file_path)
    file_size,         \* FileHandler: os.path.getsize(file_path), in bytes
    content_kind,      \* FileHandler: the kind of content the file's bytes are
    mime_db,           \* FileHandler: the type table mimetypes has loaded
    validated,         \* FileHandler: how validate_file ended
    file_type          \* FileHandler: what get_file_type returned

VARIABLES
    page_words,        \* _detect_columns: the words of the page handed in
    columns,           \* _detect_columns: what it returned
    pdf_pages,         \* AdvancedPDFTextExtractor: the pages of the PDF at pdf_path
    page_layouts,      \* AdvancedPDFTextExtractor.page_layouts
    page_num,          \* analyze_document_layout: pages the loop has finished
    document_analysis, \* analyze_document_layout: the dict it builds
    calls_made,        \* calls of analyze_document_layout made on the extractor
    layout_result,     \* how the last call of analyze_document_layout ended
    zones,             \* _identify_reading_zones: what it returned
    text_blocks        \* _extract_text_blocks: what it returned

VARIABLES
    custom_redactions,       \* st.session_state.custom_redactions
    contextual_matches,      \* st.session_state.contextual_matches
    ai_suggestions,          \* st.session_state.ai_suggestions
    has_generated_suggestions, \* st.session_state.has_generated_suggestions
    current_text,            \* st.session_state.current_text
    current_type,            \* st.session_state.current_type
    current_reason           \* st.session_state.current_reason

VARIABLES
    scan_index,        \* _redact_text, lines 451-459 taken step by step: the
                       \* place in suggestions of the text being scanned for
    scan_start         \* the same loop's start

scanvars == <<scan_index, scan_start>>

\* no step-by-step scan is modelled
ScanIdle ==
    /\ scan_index = 0
    /\ scan_start = 0

callvars == <<file_ext, output_path, fs, fs_before, pages_done, verification,
              io_failed, result, scanvars>>
enginevars == <<content, suggestions, redactions, redacted_content, origin,
                callvars>>
filevars == <<path_exts, path_exists, file_size, content_kind, mime_db,
              validated, file_type>>
layoutvars == <<page_words, columns, pdf_pages, page_layouts, page_num,
                document_analysis, calls_made, layout_result, zones,
                text_blocks>>
appvars == <<custom_redactions, contextual_matches, ai_suggestions,
             has_generated_suggestions, current_text, current_type,
             current_reason>>

\* the variables of the components around a call of the redaction engine
outervars == <<filevars, layoutvars, appvars, scanvars>>

vars == <<pc, content, suggestions, redactions, redacted_content, origin,
          file_ext, output_path, fs, fs_before, pages_done, verification,
          io_failed, result, outervars>>

\* the FileHandler variables where no FileHandler call is modelled
FilesIdle ==
    /\ path_exts = <<>>
    /\ path_exists = FALSE
    /\ file_size = 0
    /\ content_kind = "txt"
    /\ mime_db = "builtin"
    /\ validated = [outcome |-> "pending"]
    /\ file_type = "pending"

\* the extractor variables where no layout analysis is modelled
LayoutIdle ==
    /\ page_words = <<>>
    /\ columns = <<>>
    /\ pdf_pages = <<>>
    /\ page_layouts = <<>>
    /\ page_num = 0
    /\ document_analysis = [total_pages |-> 0, text_columns |-> <<>>]
    /\ calls_made = 0
    /\ layout_result = [outcome |-> "pending"]
    /\ zones = <<>>
    /\ text_blocks = <<>>

\* main.py lines 25-41: the session state after _initialize_session_state
AppIdle ==
    /\ custom_redactions = <<>>
    /\ contextual_matches = <<>>
    /\ ai_suggestions = <<>>
    /\ has_generated_suggestions = FALSE
    /\ current_text = <<>>
    /\ current_type = ""
    /\ current_reason = ""

OuterIdle == FilesIdle /\ LayoutIdle /\ AppIdle /\ ScanIdle

---------------------------------------------------------------------------
(* Bounds of the explored inputs.                                          *)

MaxContentLen == 4
MaxSuggestions == 3
MaxDocxChars == 3
MaxDocxSuggestions == 2
MaxCallChars == 2
MaxCallWords == 2
MaxCallSuggestions == 2
MaxLayoutPages == 2
MaxLayoutWords == 1
MaxLayoutCalls == 2
MaxOffered == 1
MaxRedactions == 2

(* Characters of the modelled texts: a lower-case letter and an upper-case *)
(* letter that also occurs in the marker, so that str.lower() and marker   *)
(* collisions both matter.                                                 *)
Alphabet == {"a", "A"}

(* Characters of the modelled DOCX documents: a letter and the first       *)
(* character of the filler that the DOCX applier writes.                   *)
DocxAlphabet == {"a", "U+00E2"}

(* A text that never occurs in a document over Alphabet.                   *)
AbsentText == <<"z">>

---------------------------------------------------------------------------
(* Python str primitives.                                                  *)

Min(x, y) == IF x <= y THEN x ELSE y
Max(x, y) == IF x >= y THEN x ELSE y

\* the literal '[REDACTED]'
REDACTED == <<"[", "R", "E", "D", "A", "C", "T", "E", "D", "]">>

\* ord(c) of the characters the model uses
CharCode(c) ==
    CASE c = " " -> 32
      [] c = "A" -> 65 [] c = "C" -> 67 [] c = "D" -> 68 [] c = "E" -> 69
      [] c = "R" -> 82 [] c = "T" -> 84
      [] c = "[" -> 91 [] c = "]" -> 93
      [] c = "a" -> 97 [] c = "b" -> 98 [] c = "c" -> 99 [] c = "d" -> 100
      [] c = "e" -> 101 [] c = "r" -> 114 [] c = "t" -> 116 [] c = "z" -> 122
      [] c = "U+00E2" -> 226 [] c = "U+02C6" -> 710 [] c = "U+2013" -> 8211
      [] OTHER -> 0

\* str.lower() on one character
LowerChar(c) ==
    CASE c = "A" -> "a" [] c = "C" -> "c" [] c = "D" -> "d" [] c = "E" -> "e"
      [] c = "R" -> "r" [] c = "T" -> "t" [] OTHER -> c

Lower(s) == [i \in 1..Len(s) |-> LowerChar(s[i])]

\* s < t for two Python strings (code point order, a proper prefix is smaller)
RECURSIVE StrLess(_, _)
StrLess(s, t) ==
    IF t = <<>> THEN FALSE
    ELSE IF s = <<>> THEN TRUE
    ELSE IF CharCode(Head(s)) # CharCode(Head(t))
         THEN CharCode(Head(s)) < CharCode(Head(t))
         ELSE StrLess(Tail(s), Tail(t))

\* text occurs in s at Python offset i
OccursAt(s, text, i) ==
    /\ i >= 0
    /\ i + Len(text) <= Len(s)
    /\ \A k \in 1..Len(text) : s[i + k] = text[k]

\* Python: text in s
Contains(s, text) == \E i \in 0..(Len(s) - Len(text)) : OccursAt(s, text, i)

\* Python: s.find(text, start) for start >= 0
Find(s, text, start) ==
    LET hits == {i \in start..(Len(s) - Len(text)) : OccursAt(s, text, i)}
    IN IF hits = {} THEN -1 ELSE CHOOSE i \in hits : \A j \in hits : i <= j

\* Python: buf[start:end] = replacement on a list (slice bounds are clipped)
SliceAssign(buf, start, end, replacement) ==
    LET s == Min(start, Len(buf))
        e == Min(Max(end, start), Len(buf))
    IN SubSeq(buf, 1, s) \o replacement \o SubSeq(buf, e + 1, Len(buf))

\* Python: s.replace(old, new), from offset i on: non-overlapping occurrences,
\* left to right; an empty old is "found" before every character and at the end
RECURSIVE StrReplaceFrom(_, _, _, _)
StrReplaceFrom(s, old, new, i) ==
    IF old = <<>>
    THEN IF i >= Len(s) THEN new
         ELSE new \o <<s[i + 1]>> \o StrReplaceFrom(s, old, new, i + 1)
    ELSE IF i + Len(old) > Len(s) THEN SubSeq(s, i + 1, Len(s))
    ELSE IF OccursAt(s, old, i)
         THEN new \o StrReplaceFrom(s, old, new, i + Len(old))
         ELSE <<s[i + 1]>> \o StrReplaceFrom(s, old, new, i + 1)

StrReplace(s, old, new) == StrReplaceFrom(s, old, new, 0)

\* Python: unit * n for a str unit
RECURSIVE StrTimes(_, _)
StrTimes(unit, n) == IF n <= 0 THEN <<>> ELSE unit \o StrTimes(unit, n - 1)

---------------------------------------------------------------------------
(* RedactionEngine._redact_text, redaction_engine.py lines 441-479.        *)

\* the sort key of line 447, compared as Python compares the tuples
SuggestionKeyLess(x, y) ==
    \/ Len(x.text) > Len(y.text)
    \/ /\ Len(x.text) = Len(y.text)
       /\ StrLess(Lower(x.text), Lower(y.text))

\* list.sort is stable: x goes after every element that is not greater
RECURSIVE InsertSuggestion(_, _)
InsertSuggestion(sorted, x) ==
    IF sorted = <<>> THEN <<x>>
    ELSE IF SuggestionKeyLess(x, Head(sorted))
         THEN <<x>> \o sorted
         ELSE <<Head(sorted)>> \o InsertSuggestion(Tail(sorted), x)

RECURSIVE SortSuggestionsFrom(_, _)
SortSuggestionsFrom(sorted, rest) ==
    IF rest = <<>> THEN sorted
    ELSE SortSuggestionsFrom(InsertSuggestion(sorted, Head(rest)), Tail(rest))

\* line 447: suggestions.sort(key=lambda x: (-len(x['text']), x['text'].lower()))
SortSuggestions(sugs) == SortSuggestionsFrom(<<>>, sugs)

\* lines 453-459: the while loop that scans for one text from offset start
RECURSIVE ScanText(_, _, _)
ScanText(cont, text, start) ==
    LET pos == Find(cont, text, start)
    IN IF pos = -1 THEN <<>>
       ELSE <<[start |-> pos, end |-> pos + Len(text)]>>
            \o ScanText(cont, text, pos + 1)

\* lines 450-459: the spans of every suggestion, in suggestion order
RECURSIVE CollectRedactions(_, _)
CollectRedactions(cont, sugs) ==
    IF sugs = <<>> THEN <<>>
    ELSE ScanText(cont, Head(sugs).text, 0) \o CollectRedactions(cont, Tail(sugs))

\* a rewrite loop that takes the spans as collected, the sort of line 462 left out
UnsortedRedactions(reds) == reds

\* stable descending insert: r goes after every span whose start is >= its own
RECURSIVE InsertRedaction(_, _)
InsertRedaction(sorted, r) ==
    IF sorted = <<>> THEN <<r>>
    ELSE IF r.start > Head(sorted).start
         THEN <<r>> \o sorted
         ELSE <<Head(sorted)>> \o InsertRedaction(Tail(sorted), r)

RECURSIVE SortRedactionsFrom(_, _)
SortRedactionsFrom(sorted, rest) ==
    IF rest = <<>> THEN sorted
    ELSE SortRedactionsFrom(InsertRedaction(sorted, Head(rest)), Tail(rest))

\* line 462: redactions.sort(key=lambda x: x[0], reverse=True)
SortRedactions(reds) == SortRedactionsFrom(<<>>, reds)

\* lines 466-467: the rewrite loop, on any list and any replacement
RECURSIVE ApplyRedactions(_, _, _)
ApplyRedactions(buf, reds, replacement) ==
    IF reds = <<>> THEN buf
    ELSE ApplyRedactions(
             SliceAssign(buf, Head(reds).start, Head(reds).end, replacement),
             Tail(reds), replacement)

\* lines 447-462: the spans in the order the rewrite loop takes them
TextRedactions(cont, sugs) ==
    SortRedactions(CollectRedactions(cont, SortSuggestions(sugs)))

\* lines 465-470: the redacted text
RedactTextContent(cont, sugs) ==
    ApplyRedactions(cont, TextRedactions(cont, sugs), REDACTED)

\* the input as the list of its own positions 1..n, and a marker as zeros:
\* the rewrite loop run on these tells where every output character is from
InputPositions(cont) == [i \in 1..Len(cont) |-> i]
MarkerOrigin == [i \in 1..Len(REDACTED) |-> 0]


---------------------------------------------------------------------------
(* RedactionEngine._redact_docx, redaction_engine.py lines 406-439.        *)
(* A document is the list doc.paragraphs, a paragraph the list of its      *)
(* runs, a run its text and whether it carries the redaction font.         *)

\* the filler literal of line 421 as the source file holds it: three
\* characters (U+00E2, U+2013, U+02C6), repeated once per redacted character
FILLER == <<"U+00E2", "U+2013", "U+02C6">>

\* a run as loaded from the file, and the run lines 428-432 add
SourceRun(t) == [text |-> t, redaction_font |-> FALSE]
RedactedRun(t) == [text |-> t, redaction_font |-> TRUE]

\* paragraph.text: the texts of the runs, concatenated
RECURSIVE ParagraphText(_)
ParagraphText(runs) ==
    IF runs = <<>> THEN <<>> ELSE Head(runs).text \o ParagraphText(Tail(runs))

\* lines 420-432 on one matched paragraph: every run emptied, one run added
RewriteParagraph(runs, text_to_redact) ==
    Append([k \in 1..Len(runs) |-> [runs[k] EXCEPT !.text = <<>>]],
           RedactedRun(StrReplace(ParagraphText(runs), text_to_redact,
                                  StrTimes(FILLER, Len(text_to_redact)))))

\* a match test that takes every paragraph for a match (the test of line 418
\* left out)
MatchesEveryParagraph(runs, text_to_redact) == TRUE

\* line 418: text_to_redact in paragraph.text
ParagraphMatches(runs, text_to_redact) ==
    Contains(ParagraphText(runs), text_to_redact)

\* lines 417-432: one suggestion over every paragraph
RedactParagraphs(paragraphs, text_to_redact) ==
    [p \in 1..Len(paragraphs) |->
        IF ParagraphMatches(paragraphs[p], text_to_redact)
        THEN RewriteParagraph(paragraphs[p], text_to_redact)
        ELSE paragraphs[p]]

\* lines 413-432: every suggestion in list order
RECURSIVE RedactDocxParagraphs(_, _)
RedactDocxParagraphs(paragraphs, sugs) ==
    IF sugs = <<>> THEN paragraphs
    ELSE RedactDocxParagraphs(RedactParagraphs(paragraphs, Head(sugs).text),
                              Tail(sugs))

---------------------------------------------------------------------------
(* Files and paths.                                                        *)

\* file_path, and one other path of the same directory
InputPath == "file_path"
OtherPath == "other_path"
Paths == {InputPath, OtherPath}

NoFile == [kind |-> "none"]
\* a file that was at a path before the call and is none of this call's
OldFile == [kind |-> "old"]
\* what an interrupted write leaves behind
PartialFile == [kind |-> "partial"]
TextFile(s) == [kind |-> "txt", data |-> s]
DocxFile(paragraphs) == [kind |-> "docx", data |-> paragraphs]
PdfFile(pages, enc) == [kind |-> "pdf", data |-> pages, encrypted |-> enc]

\* os.path.exists
Exists(files, path) == files[path] # NoFile

\* the state of the call variables where no call of redact_document is modelled
NoCall ==
    /\ file_ext = "txt"
    /\ output_path = OtherPath
    /\ fs = [p \in Paths |-> NoFile]
    /\ fs_before = [p \in Paths |-> NoFile]
    /\ pages_done = 0
    /\ verification = "not_run"
    /\ io_failed = FALSE
    /\ result = [outcome |-> "pending"]
    /\ ScanIdle

---------------------------------------------------------------------------
(* RedactionEngine._redact_pdf and _verify_redaction, redaction_engine.py  *)
(* lines 352-404. A PDF is the list of its pages, a page the list of its   *)
(* words in reading order on one line; glyphs are the characters of the    *)
(* words, the blanks between words are gaps, not glyphs.                   *)

\* Python: sep.join(parts)
RECURSIVE Join(_, _)
Join(parts, sep) ==
    IF parts = <<>> THEN <<>>
    ELSE IF Len(parts) = 1 THEN Head(parts)
    ELSE Head(parts) \o sep \o Join(Tail(parts), sep)

\* Python: line.split()
RECURSIVE SplitFrom(_, _, _)
SplitFrom(line, i, word) ==
    IF i > Len(line) THEN (IF word = <<>> THEN <<>> ELSE <<word>>)
    ELSE IF line[i] = " "
         THEN (IF word = <<>> THEN <<>> ELSE <<word>>) \o SplitFrom(line, i + 1, <<>>)
         ELSE SplitFrom(line, i + 1, Append(word, line[i]))

Split(line) == SplitFrom(line, 1, <<>>)

\* the text of a page's line: its words, a blank between neighbours
PageLine(words) == Join(words, <<" ">>)

\* page.get_text(): the line and its line end; nothing for a page without words
PageText(words) == IF words = <<>> THEN <<>> ELSE PageLine(words) \o <<"\n">>

\* line 401: " ".join(page.get_text() for page in doc)
DocumentText(pages) == Join([k \in 1..Len(pages) |-> PageText(pages[k])], <<" ">>)

\* line 373: page.search_for(text): the occurrences of a phrase on the page,
\* left to right, each starting after the one before ends; upper and lower
\* case of a letter count as the same and a blank of the text matches the
\* blank between two words; no hit for the empty text
RECURSIVE SearchFor(_, _, _)
SearchFor(line, text, start) ==
    IF text = <<>> THEN {}
    ELSE LET pos == Find(Lower(line), Lower(text), start)
         IN IF pos = -1 THEN {}
            ELSE {pos} \cup SearchFor(line, text, pos + Len(text))

\* the Python offset at which word k of the page starts in the page's line
RECURSIVE WordOffset(_, _)
WordOffset(words, k) ==
    IF k = 1 THEN 0 ELSE WordOffset(words, k - 1) + Len(words[k - 1]) + 1

\* lines 352-362: the positions (1-based) of the line that the annotation
\* over positions first..last reaches. Its rectangle is widened by the padding
\* on every side: it reaches into the position before and into the position
\* after, a glyph that abuts or the gap between two words, which is wider
\* than the padding.
CreatePdfRedactionAnnot(line, first, last) ==
    Max(1, first - 1)..Min(Len(line), last + 1)

\* lines 373-374: the positions (1-based) the phrase hits' annotations reach
PhraseMarks(words, text) ==
    UNION {CreatePdfRedactionAnnot(PageLine(words), p + 1, p + Len(text)) :
           p \in SearchFor(PageLine(words), text, 0)}

\* lines 376-378: the positions the annotations of every word that contains
\* the text reach
WordMarks(words, text) ==
    UNION {CreatePdfRedactionAnnot(PageLine(words), WordOffset(words, k) + 1,
                                   WordOffset(words, k) + Len(words[k])) :
           k \in {j \in 1..Len(words) : Contains(words[j], text)}}

\* lines 369-378: the annotations of every suggestion on one page
PageMarks(words, sugs) ==
    UNION {PhraseMarks(words, sugs[i].text) \cup WordMarks(words, sugs[i].text) :
           i \in 1..Len(sugs)}

\* line 380: page.apply_redactions(): every glyph an annotation reaches is
\* removed
ApplyPageRedactions(words, marks) ==
    LET line == PageLine(words)
    IN Split([i \in 1..Len(line) |-> IF i \in marks THEN " " ELSE line[i]])

\* lines 369-378 alone: the annotations are created and line 380 is left out
AnnotatePdfPage(words, sugs) == words

\* lines 369-380 on one page
RedactPdfPage(words, sugs) == ApplyPageRedactions(words, PageMarks(words, sugs))

\* lines 397-404: _verify_redaction on a file that can be opened
VerifyRedaction(file, sugs) ==
    /\ file.kind = "pdf"
    /\ \A i \in 1..Len(sugs) : ~Contains(DocumentText(file.data), sugs[i].text)

\* lines 393-394: the except clause of _redact_pdf: every file system it can
\* leave. A file at output_path is removed, or os.remove raises and the file
\* stays as it is; without a file nothing is done.
RemoveIfExists(files, path) ==
    IF Exists(files, path) THEN {[files EXCEPT ![path] = NoFile], files}
    ELSE {files}

---------------------------------------------------------------------------
(* Inputs.                                                                 *)

\* every Python str over chars of length at most n
StringsUpTo(chars, n) == UNION {[1..k -> chars] : k \in 0..n}

\* every substring of s, the empty one included
Substrings(s) ==
    {SubSeq(s, i, j) : i \in 1..(Len(s) + 1), j \in 0..Len(s)}

\* the accepted texts tried against a document text: everything that occurs
\* in it (the empty text included) and one text that does not
TextChoices(s) == Substrings(s) \cup {AbsentText}

\* a suggestion dict; the appliers read only its 'text'
Suggestion(t) == [text |-> t]

\* every non-empty list of at most n suggestions for the document text s
SuggestionLists(s, n) ==
    UNION {[1..k -> {Suggestion(t) : t \in TextChoices(s)}] : k \in 1..n}

---------------------------------------------------------------------------
(* The text applier on its own: one call of _redact_text on a readable     *)
(* file, up to the text it writes.                                         *)

InitText ==
    /\ pc = "text_call"
    /\ content \in StringsUpTo(Alphabet, MaxContentLen)
    /\ suggestions \in SuggestionLists(content, MaxSuggestions)
    /\ redactions = <<>>
    /\ redacted_content = <<>>
    /\ origin = <<>>
    /\ NoCall
    /\ OuterIdle

RedactText ==
    /\ pc = "text_call"
    /\ pc' = "text_done"
    /\ suggestions' = SortSuggestions(suggestions)
    /\ redactions' = SortRedactions(CollectRedactions(content, suggestions'))
    /\ redacted_content' = ApplyRedactions(content, redactions', REDACTED)
    /\ origin' = ApplyRedactions(InputPositions(content), redactions', MarkerOrigin)
    /\ UNCHANGED <<content, callvars>>
    /\ UNCHANGED outervars

NextText == RedactText

SpecText == InitText /\ [][NextText]_vars

---------------------------------------------------------------------------
(* The DOCX applier on its own: one call of _redact_docx on a loadable     *)
(* document, up to the paragraphs it saves.                                *)

\* how two neighbouring characters of a document are separated
DocxBreaks == {"same_run", "new_run", "new_paragraph"}

\* the paragraphs holding the first i characters of s, split as breaks says
RECURSIVE DocxParagraphs(_, _, _)
DocxParagraphs(s, breaks, i) ==
    IF i = 0 THEN <<>>
    ELSE IF i = 1 THEN << <<SourceRun(<<s[1]>>)>> >>
    ELSE LET prev == DocxParagraphs(s, breaks, i - 1)
             np == Len(prev)
             nr == Len(prev[np])
         IN CASE breaks[i - 1] = "same_run" ->
                     [prev EXCEPT ![np][nr].text = @ \o <<s[i]>>]
              [] breaks[i - 1] = "new_run" ->
                     [prev EXCEPT ![np] = Append(@, SourceRun(<<s[i]>>))]
              [] OTHER -> Append(prev, <<SourceRun(<<s[i]>>)>>)

\* every document of 1..n characters over chars: non-empty runs in non-empty
\* paragraphs
DocxDocuments(chars, n) ==
    UNION {{DocxParagraphs(s, b, k) : s \in [1..k -> chars],
                                      b \in [1..(k - 1) -> DocxBreaks]} :
           k \in 1..n}

\* the accepted texts tried against a document: everything that occurs in a
\* paragraph (the empty text included) and one text that does not
DocxTextChoices(paragraphs) ==
    UNION {Substrings(ParagraphText(paragraphs[p])) : p \in 1..Len(paragraphs)}
        \cup {AbsentText}

DocxSuggestionLists(paragraphs, n) ==
    UNION {[1..k -> {Suggestion(t) : t \in DocxTextChoices(paragraphs)}] :
           k \in 1..n}

InitDocx ==
    /\ pc = "docx_call"
    /\ content \in DocxDocuments(DocxAlphabet, MaxDocxChars)
    /\ suggestions \in DocxSuggestionLists(content, MaxDocxSuggestions)
    /\ redactions = <<>>
    /\ redacted_content = <<>>
    /\ origin = <<>>
    /\ NoCall
    /\ OuterIdle

RedactDocx ==
    /\ pc = "docx_call"
    /\ pc' = "docx_done"
    /\ redacted_content' = RedactDocxParagraphs(content, suggestions)
    /\ UNCHANGED <<content, suggestions, redactions, origin, callvars>>
    /\ UNCHANGED outervars

NextDocx == RedactDocx

SpecDocx == InitDocx /\ [][NextDocx]_vars

---------------------------------------------------------------------------
(* RedactionEngine.redact_document, redaction_engine.py lines 336-350: one *)
(* call, on a file of any extension, with any output path.                 *)

\* the keys of self.supported_formats, lines 330-334
SupportedFormats == {"pdf", "docx", "txt"}

\* extensions FileHandler accepts and supported_formats does not hold
OtherExtensions == {"doc", "rtf", "text"}

\* the words of the modelled PDF pages
PdfWords == {<<"a">>, <<"a", "A">>}

PdfBreaks == {"same_page", "new_page"}

\* the pages holding the first i words of ws, split as breaks says
RECURSIVE PdfPages(_, _, _)
PdfPages(ws, breaks, i) ==
    IF i = 0 THEN <<>>
    ELSE IF i = 1 THEN << <<ws[1]>> >>
    ELSE LET prev == PdfPages(ws, breaks, i - 1)
         IN IF breaks[i - 1] = "same_page"
            THEN [prev EXCEPT ![Len(prev)] = Append(@, ws[i])]
            ELSE Append(prev, <<ws[i]>>)

\* every document of 1..n words
PdfDocuments(n) ==
    UNION {{PdfPages(ws, b, k) : ws \in [1..k -> PdfWords],
                                 b \in [1..(k - 1) -> PdfBreaks]} : k \in 1..n}

\* the accepted texts tried against a PDF: its words, the phrases of two
\* neighbouring words, a word in the other case, a blank, the empty text and
\* a text that does not occur
PdfTextChoices(pages) ==
    UNION {{pages[k][j] : j \in 1..Len(pages[k])}
           \cup {pages[k][j] \o <<" ">> \o pages[k][j + 1] :
                 j \in 1..(Len(pages[k]) - 1)} : k \in 1..Len(pages)}
        \cup {<<"A">>, <<" ">>, <<>>, AbsentText}

\* the files a path of the extension may hold
InputFiles(ext) ==
    CASE ext = "pdf" -> {PdfFile(d, FALSE) : d \in PdfDocuments(MaxCallWords)}
      [] ext = "docx" ->
             {DocxFile(d) : d \in DocxDocuments(DocxAlphabet, MaxCallChars)}
      [] OTHER -> {TextFile(t) : t \in StringsUpTo(Alphabet, MaxCallChars)}

CallTextChoices(file) ==
    CASE file.kind = "pdf" -> PdfTextChoices(file.data)
      [] file.kind = "docx" -> DocxTextChoices(file.data)
      [] OTHER -> TextChoices(file.data)

\* every list of at most n suggestions for the file, the empty list included
CallSuggestionLists(file, n) ==
    UNION {[1..k -> {Suggestion(t) : t \in CallTextChoices(file)}] : k \in 0..n}

Returned(value) == [outcome |-> "returned", value |-> value]
Raised(error) == [outcome |-> "raised", error |-> error]

Init ==
    /\ pc = "call"
    /\ file_ext \in SupportedFormats \cup OtherExtensions
    /\ output_path \in Paths
    /\ fs \in {[p \in Paths |-> IF p = InputPath THEN f ELSE o] :
                  f \in InputFiles(file_ext),
                  o \in IF output_path = InputPath THEN {NoFile}
                        ELSE {NoFile, OldFile}}
    /\ fs_before = fs
    /\ suggestions \in CallSuggestionLists(fs[InputPath], MaxCallSuggestions)
    /\ content = <<>>
    /\ redactions = <<>>
    /\ redacted_content = <<>>
    /\ origin = <<>>
    /\ pages_done = 0
    /\ verification = "not_run"
    /\ io_failed = FALSE
    /\ result = [outcome |-> "pending"]
    /\ OuterIdle

\* lines 338-339
RejectEmpty ==
    /\ pc = "call"
    /\ suggestions = <<>>
    /\ pc' = "done"
    /\ result' = Raised("ValueError")
    /\ UNCHANGED <<content, suggestions, redactions, redacted_content, origin,
                   file_ext, output_path, fs, fs_before, pages_done,
                   verification, io_failed>>
    /\ UNCHANGED outervars

\* lines 341-345
RejectUnsupported ==
    /\ pc = "call"
    /\ suggestions # <<>>
    /\ file_ext \notin SupportedFormats
    /\ pc' = "done"
    /\ result' = Raised("ValueError")
    /\ UNCHANGED <<content, suggestions, redactions, redacted_content, origin,
                   file_ext, output_path, fs, fs_before, pages_done,
                   verification, io_failed>>
    /\ UNCHANGED outervars

\* lines 347-350 with _redact_text, lines 441-479
RedactTextCall ==
    /\ pc = "call"
    /\ suggestions # <<>>
    /\ file_ext = "txt"
    /\ pc' = "done"
    /\ \/ \* lines 443-444 raise: nothing was read
          /\ io_failed' = TRUE
          /\ result' = Raised("RuntimeError")
          /\ UNCHANGED <<content, suggestions, redactions, redacted_content,
                         origin, fs>>
       \/ \* the text is read, rewritten and written
          /\ content' = fs[InputPath].data
          /\ suggestions' = SortSuggestions(suggestions)
          /\ redactions' = SortRedactions(CollectRedactions(content', suggestions'))
          /\ redacted_content' = ApplyRedactions(content', redactions', REDACTED)
          /\ origin' = ApplyRedactions(InputPositions(content'), redactions',
                                       MarkerOrigin)
          /\ \/ /\ fs' = [fs EXCEPT ![output_path] = TextFile(redacted_content')]
                /\ result' = Returned(output_path)
                /\ UNCHANGED io_failed
             \/ \* line 473 raises: the file cannot be opened for writing
                /\ io_failed' = TRUE
                /\ result' = Raised("RuntimeError")
                /\ UNCHANGED fs
             \/ \* line 473 opens the file, line 474 raises
                /\ fs' = [fs EXCEPT ![output_path] = PartialFile]
                /\ io_failed' = TRUE
                /\ result' = Raised("RuntimeError")
    /\ UNCHANGED <<file_ext, output_path, fs_before, pages_done, verification>>

\* the call from a caller that keeps no other state
RedactTextFile ==
    /\ RedactTextCall
    /\ UNCHANGED outervars

\* lines 347-350 with _redact_docx, lines 406-439
RedactDocxFile ==
    /\ pc = "call"
    /\ suggestions # <<>>
    /\ file_ext = "docx"
    /\ pc' = "done"
    /\ \/ \* line 409 or line 410 raises
          /\ io_failed' = TRUE
          /\ result' = Raised("RuntimeError")
          /\ UNCHANGED <<content, redacted_content, fs>>
       \/ \* the document is loaded, rewritten and saved
          /\ content' = fs[InputPath].data
          /\ redacted_content' = RedactDocxParagraphs(content', suggestions)
          /\ \/ /\ fs' = [fs EXCEPT ![output_path] = DocxFile(redacted_content')]
                /\ result' = Returned(output_path)
                /\ UNCHANGED io_failed
             \/ \* line 435 raises before anything is written
                /\ io_failed' = TRUE
                /\ result' = Raised("RuntimeError")
                /\ UNCHANGED fs
             \/ \* line 435 raises with the file half written
                /\ fs' = [fs EXCEPT ![output_path] = PartialFile]
                /\ io_failed' = TRUE
                /\ result' = Raised("RuntimeError")
    /\ UNCHANGED <<suggestions, redactions, origin, file_ext, output_path,
                   fs_before, pages_done, verification>>
    /\ UNCHANGED outervars

\* line 367: fitz.open(file_path)
PdfOpen ==
    /\ pc = "call"
    /\ suggestions # <<>>
    /\ file_ext = "pdf"
    /\ \/ /\ pc' = "pdf_pages"
          /\ content' = fs[InputPath].data
          /\ UNCHANGED <<fs, io_failed, result>>
       \/ \* the file cannot be opened: lines 392-395, then line 350
          /\ pc' = "done"
          /\ io_failed' = TRUE
          /\ fs' \in RemoveIfExists(fs, output_path)
          /\ result' = Raised("RuntimeError")
          /\ UNCHANGED content
    /\ UNCHANGED <<suggestions, redactions, redacted_content, origin, file_ext,
                   output_path, fs_before, pages_done, verification>>
    /\ UNCHANGED outervars

\* lines 368-380: one turn of the loop over the pages
PdfRedactPage ==
    /\ pc = "pdf_pages"
    /\ pages_done < Len(content)
    /\ content' = [content EXCEPT ![pages_done + 1] = RedactPdfPage(@, suggestions)]
    /\ pages_done' = pages_done + 1
    /\ UNCHANGED <<pc, suggestions, redactions, redacted_content, origin,
                   file_ext, output_path, fs, fs_before, verification,
                   io_failed, result>>
    /\ UNCHANGED outervars

\* lines 383-388: doc.save(output_path, encryption=...)
PdfSave ==
    /\ pc = "pdf_pages"
    /\ pages_done = Len(content)
    /\ IF output_path = InputPath
       THEN \* a save that is not incremental onto the opened file raises:
            \* lines 392-395 on the file at output_path, then line 350
            /\ pc' = "done"
            /\ fs' \in RemoveIfExists(fs, output_path)
            /\ io_failed' = (io_failed \/ Exists(fs', output_path))
            /\ result' = Raised("RuntimeError")
            /\ UNCHANGED redacted_content
       ELSE \/ /\ pc' = "pdf_verify"
               /\ redacted_content' = content
               /\ fs' = [fs EXCEPT ![output_path] = PdfFile(content, TRUE)]
               /\ UNCHANGED <<io_failed, result>>
            \/ \* doc.save raises, before it writes or half way: lines 392-395,
               \* then line 350
               /\ pc' = "done"
               /\ io_failed' = TRUE
               /\ \E written \in {fs, [fs EXCEPT ![output_path] = PartialFile]} :
                      fs' \in RemoveIfExists(written, output_path)
               /\ result' = Raised("RuntimeError")
               /\ UNCHANGED redacted_content
    /\ UNCHANGED <<content, suggestions, redactions, origin, file_ext,
                   output_path, fs_before, pages_done, verification>>
    /\ UNCHANGED outervars

\* line 390: return output_path if self._verify_redaction(...) else None
PdfVerify ==
    /\ pc = "pdf_verify"
    /\ pc' = "done"
    /\ \/ /\ verification' = IF VerifyRedaction(fs[output_path], suggestions)
                             THEN "passed" ELSE "failed"
          /\ UNCHANGED io_failed
       \/ \* lines 403-404: the output cannot be opened again
          /\ verification' = "failed"
          /\ io_failed' = TRUE
    /\ result' = IF verification' = "passed" THEN Returned(output_path)
                 ELSE Returned("None")
    /\ UNCHANGED <<content, suggestions, redactions, redacted_content, origin,
                   file_ext, output_path, fs, fs_before, pages_done>>
    /\ UNCHANGED outervars

Next ==
    \/ RejectEmpty
    \/ RejectUnsupported
    \/ RedactTextFile
    \/ RedactDocxFile
    \/ PdfOpen
    \/ PdfRedactPage
    \/ PdfSave
    \/ PdfVerify

Spec == Init /\ [][Next]_vars

---------------------------------------------------------------------------
(* FileHandler.validate_file, get_file_type and save_temp_file,            *)
(* file_handler.py lines 11-66 and 120-142. A path is modelled by the      *)
(* extensions its name ends in; the type                                   *)
(* table of mimetypes depends on the machine: "builtin" is the table of    *)
(* the Python library alone, "system" the one extended by /etc/mime.types. *)

DOCX_MIME == "application/vnd.openxmlformats-officedocument.wordprocessingml.document"

\* lines 11-16, in the order of the dict
MIME_TYPE_MAPPING ==
    << [mime |-> "application/pdf", file_type |-> "pdf", extensions |-> <<".pdf">>],
       [mime |-> DOCX_MIME, file_type |-> "docx", extensions |-> <<".docx", ".doc">>],
       [mime |-> "text/plain", file_type |-> "txt", extensions |-> <<".txt", ".text">>],
       [mime |-> "application/rtf", file_type |-> "rtf", extensions |-> <<".rtf">>] >>

\* str.lower() on an extension
LowerExt(ext) == IF ext = ".PDF" THEN ".pdf" ELSE ext

\* os.path.splitext(file_path)[1]
SplitExt(exts) == IF exts = <<>> THEN "" ELSE exts[Len(exts)]

\* the extensions mimetypes takes for an encoding, not a type
EncodingExts == {".gz"}

\* the type table mimetypes looks an extension up in
TypesMap(db, ext) ==
    CASE ext = ".pdf" -> "application/pdf"
      [] ext = ".txt" -> "text/plain"
      [] ext = ".ksh" -> "text/plain"
      [] ext = ".doc" -> "application/msword"
      [] db = "system" /\ ext = ".docx" -> DOCX_MIME
      [] db = "system" /\ ext = ".rtf" -> "application/rtf"
      [] db = "system" /\ ext = ".text" -> "text/plain"
      [] db = "system" /\ ext = ".md" -> "text/markdown"
      [] OTHER -> "None"

\* lines 37 and 57: mimetypes.guess_type(file_path)[0]: an encoding extension
\* is taken off, the extension before it is lowered and looked up
GuessType(exts, db) ==
    LET ext == IF SplitExt(exts) \in EncodingExts
               THEN SplitExt(SubSeq(exts, 1, Len(exts) - 1))
               ELSE SplitExt(exts)
    IN TypesMap(db, LowerExt(ext))

\* line 38 and line 58: file_mime in self.MIME_TYPE_MAPPING
MappedMime(mime) ==
    \E k \in 1..Len(MIME_TYPE_MAPPING) : MIME_TYPE_MAPPING[k].mime = mime

\* line 41: valid_extensions
ValidExtensions ==
    UNION {{MIME_TYPE_MAPPING[k].extensions[j] :
            j \in 1..Len(MIME_TYPE_MAPPING[k].extensions)} :
           k \in 1..Len(MIME_TYPE_MAPPING)}

\* line 33: the limit in MiB, and the bytes of one MiB (1024 * 1024)
SizeLimitMiB == 100
BytesPerMiB == 1048576

\* a size test that rejects the limit itself
ReachesLimit(size) == size >= SizeLimitMiB * BytesPerMiB

\* line 33: os.path.getsize(file_path) / (1024 * 1024) > 100
ExceedsLimit(size) == size > SizeLimitMiB * BytesPerMiB

RaisedWith(error, message) ==
    [outcome |-> "raised", error |-> error, message |-> message]

\* lines 18-45: how validate_file ends
ValidateFileOutcome(exists, size, exts, db) ==
    IF ~exists THEN RaisedWith("FileNotFoundError", "File does not exist")
    ELSE IF ExceedsLimit(size)
    THEN RaisedWith("ValueError", "File exceeds 100MB limit")
    ELSE IF /\ ~MappedMime(GuessType(exts, db))
            /\ LowerExt(SplitExt(exts)) \notin ValidExtensions
    THEN RaisedWith("ValueError", "Unsupported file type")
    ELSE Returned(TRUE)

\* lines 62-66: the type of the first mapping entry that lists the extension
RECURSIVE TypeOfExtension(_, _)
TypeOfExtension(ext, k) ==
    IF k > Len(MIME_TYPE_MAPPING) THEN "None"
    ELSE IF \E j \in 1..Len(MIME_TYPE_MAPPING[k].extensions) :
                MIME_TYPE_MAPPING[k].extensions[j] = ext
         THEN MIME_TYPE_MAPPING[k].file_type
         ELSE TypeOfExtension(ext, k + 1)

\* lines 47-66: what get_file_type returns ("None" for None)
GetFileTypeOf(exts, db) ==
    LET file_mime == GuessType(exts, db)
    IN IF MappedMime(file_mime)
       THEN (CHOOSE e \in {MIME_TYPE_MAPPING[k] : k \in 1..Len(MIME_TYPE_MAPPING)} :
                 e.mime = file_mime).file_type
       ELSE TypeOfExtension(LowerExt(SplitExt(exts)), 1)

\* redaction_engine.py line 342: the format redact_document dispatches on,
\* os.path.splitext(file_path)[1].lower().replace('.', '')
FormatOf(exts) ==
    CASE LowerExt(SplitExt(exts)) = ".pdf" -> "pdf"
      [] SplitExt(exts) = ".docx" -> "docx"
      [] SplitExt(exts) = ".doc" -> "doc"
      [] SplitExt(exts) = ".txt" -> "txt"
      [] SplitExt(exts) = ".text" -> "text"
      [] SplitExt(exts) = ".rtf" -> "rtf"
      [] SplitExt(exts) = ".ksh" -> "ksh"
      [] SplitExt(exts) = ".md" -> "md"
      [] SplitExt(exts) = ".gz" -> "gz"
      [] OTHER -> ""

\* the modelled names: no extension, one extension, an extension and .gz
PathExtensions ==
    {".pdf", ".PDF", ".docx", ".doc", ".txt", ".text", ".rtf", ".ksh", ".md", ".gz"}

PathExtLists ==
    {<<>>} \cup {<<e>> : e \in PathExtensions}
           \cup {<<e, ".gz">> : e \in {".pdf", ".txt", ".md"}}

\* the modelled sizes, around the limit
FileSizes ==
    {0, 1, SizeLimitMiB * BytesPerMiB - 1, SizeLimitMiB * BytesPerMiB,
     SizeLimitMiB * BytesPerMiB + 1}

ContentKinds == {"pdf", "docx", "txt"}

EngineIdle ==
    /\ content = <<>>
    /\ suggestions = <<>>
    /\ redactions = <<>>
    /\ redacted_content = <<>>
    /\ origin = <<>>
    /\ NoCall

InitFiles ==
    /\ pc = "file_call"
    /\ path_exts \in PathExtLists
    /\ path_exists \in BOOLEAN
    /\ file_size \in IF path_exists THEN FileSizes ELSE {0}
    /\ content_kind \in IF path_exists THEN ContentKinds ELSE {"txt"}
    /\ mime_db \in {"builtin", "system"}
    /\ validated = [outcome |-> "pending"]
    /\ file_type = "pending"
    /\ EngineIdle
    /\ LayoutIdle
    /\ AppIdle

\* lines 18-45
ValidateFile ==
    /\ pc = "file_call"
    /\ pc' = "file_validated"
    /\ validated' = ValidateFileOutcome(path_exists, file_size, path_exts, mime_db)
    /\ UNCHANGED <<path_exts, path_exists, file_size, content_kind, mime_db,
                   file_type, enginevars, layoutvars, appvars>>

\* lines 47-66
GetFileType ==
    /\ pc = "file_validated"
    /\ pc' = "file_typed"
    /\ file_type' = GetFileTypeOf(path_exts, mime_db)
    /\ UNCHANGED <<path_exts, path_exists, file_size, content_kind, mime_db,
                   validated, enginevars, layoutvars, appvars>>

\* line 131: the name of the temporary file ends in the lowered last
\* extension of the upload's name and in nothing else
TempExts(exts) ==
    IF SplitExt(exts) = "" THEN <<>> ELSE <<LowerExt(SplitExt(exts))>>

\* the temporary copy of an upload, by the kind and the size of its content
UploadedFile(kind, size) == [kind |-> kind, size |-> size]

\* lines 120-142: save_temp_file on an upload named by path_exts whose value
\* has file_size bytes; InputPath stands for the temporary path
SaveTempFile ==
    /\ pc = "file_call"
    /\ pc' = "temp_saved"
    /\ \/ \* line 132 raises: no file, and line 140 reads the unset temp_path
          /\ io_failed' = TRUE
          /\ result' = Raised("UnboundLocalError")
          /\ UNCHANGED <<fs, validated>>
       \/ \* line 133 raises: the file is there, and line 140 reads the unset
          \* temp_path
          /\ fs' = [fs EXCEPT ![InputPath] = PartialFile]
          /\ io_failed' = TRUE
          /\ result' = Raised("UnboundLocalError")
          /\ UNCHANGED validated
       \/ \* the with block raises as it closes the file, temp_path set:
          \* lines 139-142 remove the file and raise RuntimeError, or
          \* os.remove raises in its place
          /\ fs' \in RemoveIfExists([fs EXCEPT ![InputPath] = PartialFile],
                                     InputPath)
          /\ io_failed' = TRUE
          /\ result' = IF Exists(fs', InputPath) THEN Raised("OSError")
                       ELSE Raised("RuntimeError")
          /\ UNCHANGED validated
       \/ \* lines 132-134 write the copy, line 136 validates it
          LET written == [fs EXCEPT ![InputPath] =
                              UploadedFile(content_kind, file_size)]
          IN /\ validated' = ValidateFileOutcome(TRUE, file_size,
                                                 TempExts(path_exts), mime_db)
             /\ IF validated' = Returned(TRUE)
                THEN \* line 137: the path is returned, the copy stays
                     /\ fs' = written
                     /\ result' = Returned(InputPath)
                     /\ UNCHANGED io_failed
                ELSE \* lines 139-142: the copy is removed and RuntimeError
                     \* raised, or os.remove raises in its place
                     /\ fs' \in RemoveIfExists(written, InputPath)
                     /\ io_failed' = Exists(fs', InputPath)
                     /\ result' = IF Exists(fs', InputPath) THEN Raised("OSError")
                                  ELSE Raised("RuntimeError")
    /\ UNCHANGED <<path_exts, path_exists, file_size, content_kind, mime_db,
                   file_type>>
    /\ UNCHANGED <<content, suggestions, redactions, redacted_content, origin,
                   file_ext, output_path, fs_before, pages_done, verification,
                   scanvars>>
    /\ UNCHANGED <<layoutvars, appvars>>

NextFiles ==
    \/ ValidateFile
    \/ GetFileType
    \/ SaveTempFile

SpecFiles == InitFiles /\ [][NextFiles]_vars

---------------------------------------------------------------------------
(* AdvancedPDFTextExtractor._detect_columns, redaction_engine.py lines     *)
(* 110-161. A word is the record of its x0 and x1. KMeans is modelled by   *)
(* what it converges to: a labeling in which every word is nearest to the  *)
(* mean of its own cluster; which of these labelings the seeded run finds  *)
(* is left open. silhouette_score is computed exactly, as an integer       *)
(* multiple of 1 / SilhouetteScale.                                        *)

\* line 110: max_columns: int = 3
max_columns == 3

Abs(x) == IF x < 0 THEN 0 - x ELSE x

\* the sum of f[i] over the indices i in S
RECURSIVE SetSum(_, _)
SetSum(f, S) ==
    IF S = {} THEN 0
    ELSE LET i == CHOOSE j \in S : TRUE IN f[i] + SetSum(f, S \ {i})

\* line 124: x_coords
XCoords(ws) == [i \in 1..Len(ws) |-> ws[i].x0]

UsedLabels(lab) == {lab[i] : i \in DOMAIN lab}
ClusterOf(lab, c) == {i \in DOMAIN lab : lab[i] = c}

\* |x - mean of cluster c|, multiplied by the sizes of clusters c and d
DistToCenter(xs, lab, x, c, d) ==
    Abs(x * Cardinality(ClusterOf(lab, c)) - SetSum(xs, ClusterOf(lab, c)))
        * Cardinality(ClusterOf(lab, d))

\* lines 133-134 and 141-142: the labelings KMeans(n_clusters=n).fit_predict
\* may converge to: as many clusters in use as there are distinct values, n at
\* most; equal values in one cluster; every value nearest to its own mean
KMeansLabelings(xs, n) ==
    {lab \in [1..Len(xs) -> 0..(n - 1)] :
        /\ Cardinality(UsedLabels(lab))
               = Min(n, Cardinality({xs[i] : i \in 1..Len(xs)}))
        /\ \A i, j \in 1..Len(xs) : xs[i] = xs[j] => lab[i] = lab[j]
        /\ \A i \in 1..Len(xs) : \A c \in UsedLabels(lab) :
               DistToCenter(xs, lab, xs[i], lab[i], c)
                   <= DistToCenter(xs, lab, xs[i], c, lab[i])}

\* a common multiple of the cluster sizes and of the mean distances times it
DistScale == 2 * 3
SilhouetteScale == 2 * 2 * 2 * 2 * 3 * 3 * 5 * 7 * 11 * 13 * 17

\* line 135: silhouette_score raises unless 2 <= labels in use <= samples - 1
SilhouetteDefined(lab) ==
    /\ 1 < Cardinality(UsedLabels(lab))
    /\ Cardinality(UsedLabels(lab)) <= Len(lab) - 1

\* DistScale times the mean distance of sample i to the samples of S
MeanDist(xs, i, S) ==
    (DistScale * SetSum([j \in 1..Len(xs) |-> Abs(xs[i] - xs[j])], S))
        \div Cardinality(S)

\* the silhouette of sample i times SilhouetteScale: (b - a) / max(a, b), 0 for
\* a sample alone in its cluster
SampleSilhouette(xs, lab, i) ==
    LET own == ClusterOf(lab, lab[i]) \ {i}
        a == MeanDist(xs, i, own)
        others == {MeanDist(xs, i, ClusterOf(lab, c)) :
                   c \in UsedLabels(lab) \ {lab[i]}}
        b == CHOOSE m \in others : \A o \in others : m <= o
    IN IF own = {} THEN 0
       ELSE IF Max(a, b) = 0 THEN 0
       ELSE (b - a) * (SilhouetteScale \div Max(a, b))

\* line 135: silhouette_score times SilhouetteScale times the number of samples
SilhouetteSum(xs, lab) ==
    SetSum([i \in 1..Len(xs) |-> SampleSilhouette(xs, lab, i)], 1..Len(xs))

\* lines 131-138: the loop over n from n on; labs[n] is what KMeans finds for
\* n clusters. "error" when silhouette_score raises.
RECURSIVE BestNClusters(_, _, _, _, _)
BestNClusters(xs, labs, n, best_n_clusters, best_score) ==
    IF n >= Min(max_columns + 1, Len(xs)) THEN best_n_clusters
    ELSE IF n = 1 THEN BestNClusters(xs, labs, 2, best_n_clusters, best_score)
    ELSE IF ~SilhouetteDefined(labs[n]) THEN 0
    ELSE IF SilhouetteSum(xs, labs[n]) > best_score
         THEN BestNClusters(xs, labs, n + 1, n, SilhouetteSum(xs, labs[n]))
         ELSE BestNClusters(xs, labs, n + 1, best_n_clusters, best_score)

\* Python: [w for w, label in zip(words, cluster_labels) if label == cluster]
RECURSIVE ClusterWords(_, _, _, _)
ClusterWords(ws, lab, cluster, i) ==
    IF i > Len(ws) THEN <<>>
    ELSE (IF lab[i] = cluster THEN <<ws[i]>> ELSE <<>>)
             \o ClusterWords(ws, lab, cluster, i + 1)

MinOf(S) == CHOOSE m \in S : \A o \in S : m <= o
MaxOf(S) == CHOOSE m \in S : \A o \in S : m >= o

\* lines 150-153: (min x0, max x1) of the cluster's words
XRange(cluster_words) ==
    << MinOf({cluster_words[k].x0 : k \in 1..Len(cluster_words)}),
       MaxOf({cluster_words[k].x1 : k \in 1..Len(cluster_words)}) >>

\* lines 145-155: the columns of clusters cluster..best_n_clusters - 1
RECURSIVE GroupWords(_, _, _, _)
GroupWords(ws, lab, cluster, best_n_clusters) ==
    IF cluster >= best_n_clusters THEN <<>>
    ELSE LET cluster_words == ClusterWords(ws, lab, cluster, 1)
         IN (IF cluster_words = <<>> THEN <<>>
             ELSE << [x_range |-> XRange(cluster_words),
                      words |-> cluster_words] >>)
                \o GroupWords(ws, lab, cluster + 1, best_n_clusters)

\* lines 121-161 where KMeans finds labs[n] for n clusters: [] for no words and
\* when silhouette_score raises (lines 159-161)
DetectColumnsWith(ws, labs) ==
    IF ws = <<>> THEN <<>>
    ELSE LET xs == XCoords(ws)
             best_n_clusters ==
                 BestNClusters(xs, labs, 1, 1, 0 - Len(xs) * SilhouetteScale)
         IN IF best_n_clusters = 0 THEN <<>>
            ELSE IF best_n_clusters = 1
            THEN GroupWords(ws, [i \in 1..Len(ws) |-> 0], 0, 1)
            ELSE GroupWords(ws, labs[best_n_clusters], 0, best_n_clusters)

\* what KMeans may find for every n > 1 the loop of line 131 tries
LabelingChoices(xs) ==
    LET ns == 2..(Min(max_columns + 1, Len(xs)) - 1)
    IN {[n \in ns |-> IF n = 2 THEN l2 ELSE l3] :
           l2 \in KMeansLabelings(xs, 2), l3 \in KMeansLabelings(xs, 3)}

\* the modelled words: three places to start, narrow or wide
WordBoxes == {[x0 |-> a, x1 |-> a + w] : a \in {0, 1, 3}, w \in {1, 4}}

\* every page of at most n words
PagesUpTo(n) == UNION {[1..k -> WordBoxes] : k \in 0..n}

InitColumns ==
    /\ pc = "columns_call"
    /\ page_words \in PagesUpTo(max_columns + 1)
    /\ zones = <<>>
    /\ text_blocks = <<>>
    /\ columns = <<>>
    /\ pdf_pages = <<>>
    /\ page_layouts = <<>>
    /\ page_num = 0
    /\ document_analysis = [total_pages |-> 0, text_columns |-> <<>>]
    /\ calls_made = 0
    /\ layout_result = [outcome |-> "pending"]
    /\ EngineIdle
    /\ FilesIdle
    /\ AppIdle

\* lines 110-161
DetectColumns ==
    /\ pc = "columns_call"
    /\ pc' = "columns_done"
    /\ \E labs \in LabelingChoices(XCoords(page_words)) :
           columns' = DetectColumnsWith(page_words, labs)
    /\ UNCHANGED <<zones, text_blocks, page_words, pdf_pages, page_layouts,
                   page_num, document_analysis, calls_made, layout_result,
                   enginevars, filevars, appvars>>

NextColumns == DetectColumns

SpecColumns == InitColumns /\ [][NextColumns]_vars

---------------------------------------------------------------------------
(* AdvancedPDFTextExtractor.analyze_document_layout, redaction_engine.py   *)
(* lines 26-108. A page either gives its words or makes extract_words      *)
(* raise. Of a page's layout the columns, the text direction and the word  *)
(* count are modelled; words carry no vertical position.                   *)

ReadablePage(ws) == [readable |-> TRUE, words |-> ws]
UnreadablePage == [readable |-> FALSE, words |-> <<>>]

\* lines 163-183: _detect_text_direction
DetectTextDirection(ws) ==
    LET ltr == Cardinality({i \in 1..Len(ws) : ws[i].x1 > ws[i].x0})
    IN IF ws # <<>> /\ 10 * ltr > 9 * Len(ws) THEN "ltr"
       ELSE IF ws = <<>> \/ 10 * ltr < Len(ws) THEN "rtl"
       ELSE "mixed"

\* lines 83-108: _analyze_page_layout where KMeans finds labs[n]
AnalyzePageLayout(ws, labs) ==
    [columns |-> DetectColumnsWith(ws, labs),
     text_direction |-> DetectTextDirection(ws),
     word_count |-> Len(ws)]

\* the words of the pages of the modelled documents: narrow at the left, wide
\* at the right
LayoutWordBoxes == {[x0 |-> 0, x1 |-> 1], [x0 |-> 3, x1 |-> 7]}

LayoutPages ==
    {UnreadablePage}
        \cup {ReadablePage(ws) :
              ws \in UNION {[1..k -> LayoutWordBoxes] : k \in 0..MaxLayoutWords}}

LayoutDocuments == UNION {[1..k -> LayoutPages] : k \in 0..MaxLayoutPages}

\* lines 26-34: the extractor after __init__
InitLayout ==
    /\ pc = "layout_idle"
    /\ pdf_pages \in LayoutDocuments
    /\ page_layouts = <<>>
    /\ page_num = 0
    /\ document_analysis = [total_pages |-> 0, text_columns |-> <<>>]
    /\ calls_made = 0
    /\ layout_result = [outcome |-> "pending"]
    /\ page_words = <<>>
    /\ columns = <<>>
    /\ zones = <<>>
    /\ text_blocks = <<>>
    /\ EngineIdle
    /\ FilesIdle
    /\ AppIdle

\* lines 43-52: a call of analyze_document_layout begins
LayoutOpen ==
    /\ pc = "layout_idle"
    /\ calls_made < MaxLayoutCalls
    /\ pc' = "layout_pages"
    /\ calls_made' = calls_made + 1
    /\ document_analysis' = [total_pages |-> Len(pdf_pages), text_columns |-> <<>>]
    /\ page_num' = 0
    /\ layout_result' = [outcome |-> "pending"]
    /\ UNCHANGED <<zones, text_blocks, page_words, columns, pdf_pages,
                   page_layouts, enginevars, filevars, appvars>>

\* lines 54-78: one turn of the loop over the pages
LayoutPage ==
    /\ pc = "layout_pages"
    /\ page_num < Len(pdf_pages)
    /\ IF pdf_pages[page_num + 1].readable
       THEN /\ \E labs \in LabelingChoices(XCoords(pdf_pages[page_num + 1].words)) :
                  LET page_layout ==
                          AnalyzePageLayout(pdf_pages[page_num + 1].words, labs)
                  IN /\ page_layouts' = Append(page_layouts, page_layout)
                     /\ document_analysis' =
                            [document_analysis EXCEPT
                                !.text_columns = @ \o page_layout.columns]
            /\ page_num' = page_num + 1
            /\ UNCHANGED <<pc, layout_result>>
       ELSE \* line 56: extract_words raises, nothing catches it
            /\ pc' = "layout_idle"
            /\ layout_result' = Raised("Exception")
            /\ UNCHANGED <<page_layouts, document_analysis, page_num>>
    /\ UNCHANGED <<zones, text_blocks, page_words, columns, pdf_pages,
                   calls_made, enginevars, filevars, appvars>>

\* line 81: return document_analysis
LayoutReturn ==
    /\ pc = "layout_pages"
    /\ page_num = Len(pdf_pages)
    /\ pc' = "layout_idle"
    /\ layout_result' = Returned(document_analysis)
    /\ UNCHANGED <<zones, text_blocks, page_words, columns, pdf_pages,
                   page_layouts, page_num, document_analysis, calls_made,
                   enginevars, filevars, appvars>>

NextLayout ==
    \/ LayoutOpen
    \/ LayoutPage
    \/ LayoutReturn

SpecLayout == InitLayout /\ [][NextLayout]_vars

---------------------------------------------------------------------------
(* MultiDocRedactionApp, main.py lines 25-119 and 186-243: the operator's  *)
(* actions on the session state. What the AI suggester answers is an input *)
(* of the model.                                                           *)

AppTexts == {<<"a">>, <<"A">>}

\* line 85: the types of the selectbox that are modelled
RedactionTypes == {"PII", "CUSTOM"}

Reasons == {"", "r"}

\* what get_redaction_suggestions may return: lists of suggestion dicts
AiSuggestions ==
    {[text |-> t, type |-> "PII", confidence |-> "90", reason |-> "ai"] :
        t \in AppTexts}

\* what analyze_contextual_meaning may return: lists of match dicts
ContextualMatches ==
    {[text |-> t, confidence |-> "90", reason |-> "m"] : t \in AppTexts}

ListsUpTo(S, n) == UNION {[1..k -> S] : k \in 0..n}

\* Python: list.pop(idx)
Pop(list, idx) ==
    [k \in 1..(Len(list) - 1) |-> IF k < idx THEN list[k] ELSE list[k + 1]]

InitApp ==
    /\ pc = "app"
    /\ AppIdle
    /\ EngineIdle
    /\ FilesIdle
    /\ LayoutIdle

\* lines 46-52: "Get AI Suggestions"
GetAiSuggestions ==
    /\ pc = "app"
    /\ ai_suggestions' \in ListsUpTo(AiSuggestions, MaxOffered)
    /\ has_generated_suggestions' = TRUE
    /\ UNCHANGED <<pc, custom_redactions, contextual_matches, current_text,
                   current_type, current_reason, enginevars, filevars,
                   layoutvars>>

\* lines 70-79: "Accept Suggestion" on a displayed suggestion
HandleSuggestionAcceptance ==
    /\ pc = "app"
    /\ has_generated_suggestions
    /\ Len(custom_redactions) < MaxRedactions
    /\ \E i \in 1..Len(ai_suggestions) :
           custom_redactions' =
               IF \A k \in 1..Len(custom_redactions) :
                      custom_redactions[k].text # ai_suggestions[i].text
               THEN Append(custom_redactions, ai_suggestions[i])
               ELSE custom_redactions
    /\ UNCHANGED <<pc, contextual_matches, ai_suggestions,
                   has_generated_suggestions, current_text, current_type,
                   current_reason, enginevars, filevars, layoutvars>>

\* a custom redaction whose contextual matches are all accepted at once
ProcessAndAcceptMatches ==
    /\ pc = "app"
    /\ \E t \in AppTexts, k \in RedactionTypes, r \in Reasons :
           /\ contextual_matches' \in ListsUpTo(ContextualMatches, MaxOffered)
           /\ current_text' = t
           /\ current_type' = k
           /\ current_reason' = r
           /\ custom_redactions' =
                  custom_redactions \o
                      [j \in 1..Len(contextual_matches') |->
                          [text |-> contextual_matches'[j].text,
                           type |-> k,
                           confidence |-> contextual_matches'[j].confidence,
                           reason |-> contextual_matches'[j].reason]]
    /\ UNCHANGED <<pc, ai_suggestions, has_generated_suggestions, enginevars,
                   filevars, layoutvars>>

\* lines 81-103: "Add Redaction" with a text entered: _process_custom_redaction
ProcessCustomRedaction ==
    /\ pc = "app"
    /\ \E t \in AppTexts, k \in RedactionTypes, r \in Reasons :
           /\ contextual_matches' \in ListsUpTo(ContextualMatches, MaxOffered)
           /\ current_text' = t
           /\ current_type' = k
           /\ current_reason' = r
    /\ UNCHANGED <<pc, custom_redactions, ai_suggestions,
                   has_generated_suggestions, enginevars, filevars, layoutvars>>

\* lines 216-243: "Add this match" on a displayed contextual match
AddThisMatch ==
    /\ pc = "app"
    /\ Len(custom_redactions) < MaxRedactions
    /\ \E idx \in 1..Len(contextual_matches) :
           LET match == contextual_matches[idx]
               new_redaction ==
                   [text |-> match.text,
                    type |-> current_type,
                    confidence |-> match.confidence,
                    reason |-> IF current_reason # "" THEN current_reason
                               ELSE match.reason]
           IN custom_redactions' =
                  IF \A k \in 1..Len(custom_redactions) :
                         custom_redactions[k] # new_redaction
                  THEN Append(custom_redactions, new_redaction)
                  ELSE custom_redactions
    /\ UNCHANGED <<pc, contextual_matches, ai_suggestions,
                   has_generated_suggestions, current_text, current_type,
                   current_reason, enginevars, filevars, layoutvars>>

\* lines 105-119: "Remove" on a displayed redaction
RemoveRedaction ==
    /\ pc = "app"
    /\ \E idx \in 1..Len(custom_redactions) :
           custom_redactions' = Pop(custom_redactions, idx)
    /\ UNCHANGED <<pc, contextual_matches, ai_suggestions,
                   has_generated_suggestions, current_text, current_type,
                   current_reason, enginevars, filevars, layoutvars>>

NextApp ==
    \/ GetAiSuggestions
    \/ HandleSuggestionAcceptance
    \/ ProcessCustomRedaction
    \/ AddThisMatch
    \/ RemoveRedaction

SpecApp == InitApp /\ [][NextApp]_vars

---------------------------------------------------------------------------
(* MultiDocRedactionApp.run, main.py lines 197-313: one run of the script  *)
(* with a document uploaded. temp_file_path is InputPath, the output_path  *)
(* of lines 257-260 is OtherPath. The call of line 262 is the engine's     *)
(* redact_document, taken step by step as above. secure_file_deletion     *)
(* (security_utils.py) deletes the file it is given.                       *)

MaxRunRedactions == 2

\* the accepted texts of the session's list
RunTexts == {<<"a">>, <<"a", "A">>, AbsentText}

RunRedaction(t) == [text |-> t, type |-> "PII", confidence |-> "90", reason |-> "r"]

\* the session state the run starts with: the list the operator built so far
InitRun ==
    /\ pc = "run_upload"
    /\ file_ext \in SupportedFormats
    /\ output_path = OtherPath
    /\ fs = [p \in Paths |-> NoFile]
    /\ fs_before = fs
    /\ custom_redactions \in
           ListsUpTo({RunRedaction(t) : t \in RunTexts}, MaxRunRedactions)
    /\ suggestions = <<>>
    /\ content = <<>>
    /\ redactions = <<>>
    /\ redacted_content = <<>>
    /\ origin = <<>>
    /\ pages_done = 0
    /\ verification = "not_run"
    /\ io_failed = FALSE
    /\ result = [outcome |-> "pending"]
    /\ contextual_matches = <<>>
    /\ ai_suggestions = <<>>
    /\ has_generated_suggestions = FALSE
    /\ current_text = <<>>
    /\ current_type = ""
    /\ current_reason = ""
    /\ FilesIdle
    /\ LayoutIdle
    /\ ScanIdle

\* lines 199-201: the uploaded bytes are written to temp_file_path; the
\* lines are in no try, an error of theirs ends the run
RunSaveUpload ==
    /\ pc = "run_upload"
    /\ \/ /\ pc' = "run_saved"
          /\ \E f \in InputFiles(file_ext) : fs' = [fs EXCEPT ![InputPath] = f]
          /\ UNCHANGED <<io_failed, result>>
       \/ \* line 200 raises and there is no file, or line 201 raises and the
          \* file is empty or cut
          /\ pc' = "run_upload_error"
          /\ fs' \in {fs, [fs EXCEPT ![InputPath] = PartialFile]}
          /\ io_failed' = TRUE
          /\ result' = Raised("OSError")
    /\ UNCHANGED <<content, suggestions, redactions, redacted_content, origin,
                   file_ext, output_path, fs_before, pages_done, verification>>
    /\ UNCHANGED outervars

\* line 205: extract_text returns, or raises into lines 312-313
RunExtractText ==
    /\ pc = "run_saved"
    /\ pc' \in {"run_extracted", "run_extract_error"}
    /\ UNCHANGED enginevars
    /\ UNCHANGED outervars

\* line 248: the run ends with "Apply Redactions" not pressed
RunNoApply ==
    /\ pc = "run_extracted"
    /\ pc' = "run_not_applied"
    /\ UNCHANGED enginevars
    /\ UNCHANGED outervars

\* lines 248-253: "Apply Redactions" pressed on an empty list
RunApplyNothing ==
    /\ pc = "run_extracted"
    /\ custom_redactions = <<>>
    /\ pc' = "run_nothing_to_apply"
    /\ UNCHANGED enginevars
    /\ UNCHANGED outervars

\* lines 255-266: redact_document is called with the session's list itself
RunApply ==
    /\ pc = "run_extracted"
    /\ custom_redactions # <<>>
    /\ pc' = "call"
    /\ suggestions' = custom_redactions
    /\ fs_before' = fs
    /\ UNCHANGED <<content, redactions, redacted_content, origin, file_ext,
                   output_path, fs, pages_done, verification, io_failed, result>>
    /\ UNCHANGED outervars

\* lines 262-266 on a .txt upload: the list handed to redact_document is
\* the session's list itself, so the sort of line 447 sorts the session's list
RunRedactTextFile ==
    /\ RedactTextCall
    /\ custom_redactions' = suggestions'
    /\ UNCHANGED <<contextual_matches, ai_suggestions, has_generated_suggestions,
                   current_text, current_type, current_reason, filevars,
                   layoutvars, scanvars>>

\* lines 307 and 309: secure_file_deletion on a path that holds a file: every
\* file system it can leave, the file deleted or, when the deletion fails,
\* still there
SecureFileDeletion(files, path) ==
    IF Exists(files, path) THEN {[files EXCEPT ![path] = NoFile], files}
    ELSE {files}

\* lines 268-310: whatever the call gave, the finally clause has both files
\* deleted
RunFinally ==
    /\ pc = "done"
    /\ pc' = "run_finished"
    /\ \E deleted \in SecureFileDeletion(fs, InputPath) :
           fs' \in SecureFileDeletion(deleted, output_path)
    /\ io_failed' = (io_failed \/ \E p \in Paths : Exists(fs', p))
    /\ UNCHANGED <<content, suggestions, redactions, redacted_content, origin,
                   file_ext, output_path, fs_before, pages_done, verification,
                   result>>
    /\ UNCHANGED outervars

NextRun ==
    \/ RunSaveUpload
    \/ RunExtractText
    \/ RunNoApply
    \/ RunApplyNothing
    \/ RunApply
    \/ RunRedactTextFile
    \/ RedactDocxFile
    \/ PdfOpen
    \/ PdfRedactPage
    \/ PdfSave
    \/ PdfVerify
    \/ RunFinally

SpecRun == InitRun /\ [][NextRun]_vars

---------------------------------------------------------------------------
(* AdvancedPDFTextExtractor._identify_reading_zones (redaction_engine.py   *)
(* lines 185-221) and _extract_text_blocks (lines 243-289), each on the    *)
(* words of one page. A word is the dict pdfplumber gives, with its 'top', *)
(* 'bottom', 'x0', 'x1' and 'text'; the words carry no 'size' and no       *)
(* 'fontname', so word.get gives the defaults.                             *)

MaxPageWords == 3

\* line 203: the vertical gap above which a word starts a new zone
ZoneGap == 10
\* lines 256-257: the gaps above which a word starts a new block
BlockVerticalGap == 5
BlockHorizontalGap == 20

\* Python's order on the key tuples (of one or two numbers)
KeyLess(a, b) ==
    \/ a[1] < b[1]
    \/ a[1] = b[1] /\ Len(a) > 1 /\ a[2] < b[2]

\* sorted() is stable: e goes after every element whose key is not greater
RECURSIVE InsertKeyed(_, _)
InsertKeyed(sorted, e) ==
    IF sorted = <<>> THEN <<e>>
    ELSE IF KeyLess(e.key, Head(sorted).key)
         THEN <<e>> \o sorted
         ELSE <<Head(sorted)>> \o InsertKeyed(Tail(sorted), e)

RECURSIVE SortKeyedFrom(_, _)
SortKeyedFrom(sorted, rest) ==
    IF rest = <<>> THEN sorted
    ELSE SortKeyedFrom(InsertKeyed(sorted, Head(rest)), Tail(rest))

\* sorted(ws, key=...), keys[i] being the key of ws[i]
SortedWords(ws, keys) ==
    LET keyed == SortKeyedFrom(<<>>, [i \in 1..Len(ws) |->
                                         [key |-> keys[i], word |-> ws[i]]])
    IN [i \in 1..Len(ws) |-> keyed[i].word]

\* line 196: sorted(words, key=lambda w: w['top'])
SortedByTop(ws) == SortedWords(ws, [i \in 1..Len(ws) |-> <<ws[i].top>>])

\* line 250: sorted(words, key=lambda w: (w['top'], w['x0']))
SortedByTopLeft(ws) ==
    SortedWords(ws, [i \in 1..Len(ws) |-> <<ws[i].top, ws[i].x0>>])

\* line 203: word['top'] - current_zone['bottom'] > 10
StartsZone(word, current_zone) == word.top - current_zone.bottom > ZoneGap

\* lines 201-219: the loop from word i on; acc holds the zones appended so
\* far and, as its last element, current_zone
RECURSIVE ZonesFrom(_, _, _)
ZonesFrom(sorted_words, i, acc) ==
    IF i > Len(sorted_words) THEN acc
    ELSE LET word == sorted_words[i]
         IN IF acc = <<>> \/ StartsZone(word, acc[Len(acc)])
            THEN ZonesFrom(sorted_words, i + 1,
                     Append(acc, [top |-> word.top,
                                  bottom |-> word.bottom,
                                  words |-> <<word>>,
                                  text |-> word.text]))
            ELSE LET current_zone == acc[Len(acc)]
                 IN ZonesFrom(sorted_words, i + 1,
                        [acc EXCEPT ![Len(acc)] =
                            [top |-> current_zone.top,
                             bottom |-> Max(current_zone.bottom, word.bottom),
                             words |-> Append(current_zone.words, word),
                             text |-> current_zone.text \o <<" ">> \o word.text]])

\* lines 185-221
IdentifyReadingZonesOf(ws) == ZonesFrom(SortedByTop(ws), 1, <<>>)

\* lines 256-257
StartsBlock(word, current_block) ==
    \/ Abs(word.top - current_block.bottom) > BlockVerticalGap
    \/ word.x0 - current_block.right > BlockHorizontalGap

\* lines 254-287: the loop from word i on; acc holds the blocks appended so
\* far and, as its last element, current_block
RECURSIVE BlocksFrom(_, _, _)
BlocksFrom(sorted_words, i, acc) ==
    IF i > Len(sorted_words) THEN acc
    ELSE LET word == sorted_words[i]
         IN IF acc = <<>> \/ StartsBlock(word, acc[Len(acc)])
            THEN BlocksFrom(sorted_words, i + 1,
                     Append(acc, [top |-> word.top,
                                  bottom |-> word.bottom,
                                  left |-> word.x0,
                                  right |-> word.x1,
                                  text |-> word.text,
                                  words |-> <<word>>,
                                  font_info |-> [sizes |-> <<0>>,
                                                 names |-> <<"unknown">>]]))
            ELSE LET current_block == acc[Len(acc)]
                 IN BlocksFrom(sorted_words, i + 1,
                        [acc EXCEPT ![Len(acc)] =
                            [top |-> current_block.top,
                             bottom |-> Max(current_block.bottom, word.bottom),
                             left |-> current_block.left,
                             right |-> Max(current_block.right, word.x1),
                             text |-> current_block.text \o <<" ">> \o word.text,
                             words |-> Append(current_block.words, word),
                             font_info |->
                                 [sizes |-> Append(current_block.font_info.sizes, 0),
                                  names |-> Append(current_block.font_info.names,
                                                   "unknown")]]])

\* lines 243-289
ExtractTextBlocksOf(ws) ==
    IF ws = <<>> THEN <<>> ELSE BlocksFrom(SortedByTopLeft(ws), 1, <<>>)

\* the words tried: lines at three heights on the page, low and tall, at
\* three places across it
PageWordDicts ==
    {[top |-> t, bottom |-> t + h, x0 |-> x, x1 |-> x + 5, text |-> <<"a">>] :
        t \in {0, 1, 20}, h \in {1, 30}, x \in {0, 10, 30}}

InitWords ==
    /\ pc = "words_call"
    /\ page_words \in UNION {[1..k -> PageWordDicts] : k \in 0..MaxPageWords}
    /\ columns = <<>>
    /\ pdf_pages = <<>>
    /\ page_layouts = <<>>
    /\ page_num = 0
    /\ document_analysis = [total_pages |-> 0, text_columns |-> <<>>]
    /\ calls_made = 0
    /\ layout_result = [outcome |-> "pending"]
    /\ zones = <<>>
    /\ text_blocks = <<>>
    /\ EngineIdle
    /\ FilesIdle
    /\ AppIdle

\* a call of _identify_reading_zones(words)
IdentifyReadingZones ==
    /\ pc = "words_call"
    /\ pc' = "zones_done"
    /\ zones' = IdentifyReadingZonesOf(page_words)
    /\ UNCHANGED <<text_blocks, page_words, columns, pdf_pages, page_layouts,
                   page_num, document_analysis, calls_made, layout_result,
                   enginevars, filevars, appvars>>

\* a call of _extract_text_blocks(words)
ExtractTextBlocks ==
    /\ pc = "words_call"
    /\ pc' = "blocks_done"
    /\ text_blocks' = ExtractTextBlocksOf(page_words)
    /\ UNCHANGED <<zones, page_words, columns, pdf_pages, page_layouts,
                   page_num, document_analysis, calls_made, layout_result,
                   enginevars, filevars, appvars>>

NextWords ==
    \/ IdentifyReadingZones
    \/ ExtractTextBlocks

SpecWords == InitWords /\ [][NextWords]_vars

---------------------------------------------------------------------------
(* The occurrence scan of _redact_text, redaction_engine.py lines 450-459, *)
(* one turn of the while loop at a time, from the state after the sort of  *)
(* line 447.                                                               *)

MaxScanLen == 3
MaxScanSuggestions == 2

\* more spans than any scan of the explored inputs records
ScanCap == (MaxScanSuggestions + 1) * (MaxScanLen + 2)

\* a scan that looks again from the offset it has just found
SameStart(pos) == pos

\* line 459: start = pos + 1
NextStart(pos) == pos + 1

InitScan ==
    /\ pc = "scan"
    /\ content \in StringsUpTo(Alphabet, MaxScanLen)
    /\ suggestions \in {SortSuggestions(l) :
                           l \in SuggestionLists(content, MaxScanSuggestions)}
    /\ redactions = <<>>
    /\ scan_index = 1
    /\ scan_start = 0
    /\ redacted_content = <<>>
    /\ origin = <<>>
    /\ file_ext = "txt"
    /\ output_path = OtherPath
    /\ fs = [p \in Paths |-> NoFile]
    /\ fs_before = [p \in Paths |-> NoFile]
    /\ pages_done = 0
    /\ verification = "not_run"
    /\ io_failed = FALSE
    /\ result = [outcome |-> "pending"]
    /\ FilesIdle
    /\ LayoutIdle
    /\ AppIdle

\* lines 455-459: find gives an offset; the span is recorded, start moves on
ScanRecord ==
    /\ pc = "scan"
    /\ scan_index <= Len(suggestions)
    /\ Len(redactions) < ScanCap
    /\ LET text == suggestions[scan_index].text
           pos == Find(content, text, scan_start)
       IN /\ pos # -1
          /\ redactions' = Append(redactions,
                                  [start |-> pos, end |-> pos + Len(text)])
          /\ scan_start' = NextStart(pos)
    /\ UNCHANGED <<pc, content, suggestions, redacted_content, origin, file_ext,
                   output_path, fs, fs_before, pages_done, verification,
                   io_failed, result, scan_index, filevars, layoutvars, appvars>>

\* lines 455-457 and 451-453: find gives -1; the loop goes to the next text
ScanBreak ==
    /\ pc = "scan"
    /\ scan_index <= Len(suggestions)
    /\ Find(content, suggestions[scan_index].text, scan_start) = -1
    /\ scan_index' = scan_index + 1
    /\ scan_start' = 0
    /\ UNCHANGED <<pc, content, suggestions, redactions, redacted_content,
                   origin, file_ext, output_path, fs, fs_before, pages_done,
                   verification, io_failed, result, filevars, layoutvars,
                   appvars>>

\* line 451: the list is exhausted
ScanEnd ==
    /\ pc = "scan"
    /\ scan_index > Len(suggestions)
    /\ pc' = "scan_done"
    /\ UNCHANGED <<content, suggestions, redactions, redacted_content, origin,
                   file_ext, output_path, fs, fs_before, pages_done,
                   verification, io_failed, result, scan_index, scan_start,
                   filevars, layoutvars, appvars>>

NextScan ==
    \/ ScanRecord
    \/ ScanBreak
    \/ ScanEnd

SpecScan == InitScan /\ [][NextScan]_vars

\* the interpreter keeps running the loop
SpecScanLive == SpecScan /\ WF_vars(NextScan)

---------------------------------------------------------------------------
(* What the claims about the text applier speak of.                        *)

\* the Python offsets at which text occurs in cont
Occurrences(cont, text) ==
    {p \in 0..(Len(cont) - Len(text)) : OccursAt(cont, text, p)}

\* the match spans of an accepted list in a text: one per list entry and
\* occurrence, <<entry, start, end>>
MatchSpans(cont, sugs) ==
    UNION {{<<i, p, p + Len(sugs[i].text)>> :
               p \in Occurrences(cont, sugs[i].text)} : i \in 1..Len(sugs)}

\* two spans have a character position in common
SharePosition(s1, e1, s2, e2) == \E q \in s1..(e1 - 1) : s2 <= q /\ q < e2

\* one span ends where or before the other starts
Apart(s1, e1, s2, e2) == e1 <= s2 \/ e2 <= s1

\* cont with every span of spans replaced by replacement, read left to right
\* from offset p; spans are <<entry, start, end>> and lie one after another
RECURSIVE ReplaceSpansFrom(_, _, _, _)
ReplaceSpansFrom(buf, spans, p, replacement) ==
    LET emptyHere == {x \in spans : x[2] = p /\ x[3] = p}
        here == {x \in spans : x[2] = p /\ x[3] > p}
        rest == {x \in spans : x[2] # p}
    IN IF emptyHere # {}
       THEN replacement
            \o ReplaceSpansFrom(buf, spans \ {CHOOSE x \in emptyHere : TRUE}, p,
                                replacement)
       ELSE IF here # {}
       THEN LET x == CHOOSE y \in here : TRUE
            IN replacement \o ReplaceSpansFrom(buf, spans \ {x}, x[3], replacement)
       ELSE IF p < Len(buf)
       THEN <<buf[p + 1]>> \o ReplaceSpansFrom(buf, rest, p + 1, replacement)
       ELSE <<>>

TextDone == pc = "text_done"

\* the input positions that lie inside the occurrence of text at offset p
Covered(p, text) == (p + 1)..(p + Len(text))

\* C4 (as claimed): after _redact_text has produced its output, no accepted
\* text is a substring of the output. The empty text, a substring of every
\* output, is left aside: the statement fails without it.
C4_OutputHoldsNoAcceptedText ==
    TextDone =>
        \A i \in 1..Len(suggestions) :
            suggestions[i].text # <<>> =>
                ~Contains(redacted_content, suggestions[i].text)

\* C6 (as claimed): for two distinct accepted texts t1, t2 with t1 inside t2,
\* and an occurrence of t1 nested in an occurrence of t2 in the input, no
\* character of that occurrence of t1 is left in the output. Only lists of
\* non-empty texts are looked at.
C6_NoNestedFragmentSurvives ==
    (TextDone /\ \A k \in 1..Len(suggestions) : suggestions[k].text # <<>>) =>
        \A i, j \in 1..Len(suggestions) :
            LET t1 == suggestions[i].text
                t2 == suggestions[j].text
            IN (t1 # t2 /\ Contains(t2, t1)) =>
                   \A p2 \in Occurrences(content, t2) :
                       \A p1 \in Occurrences(content, t1) :
                           (p2 <= p1 /\ p1 + Len(t1) <= p2 + Len(t2)) =>
                               \A q \in 1..Len(origin) :
                                   origin[q] \notin Covered(p1, t1)

\* the accepted list holds non-empty texts, no text twice
DistinctNonEmptyTexts ==
    /\ \A k \in 1..Len(suggestions) : suggestions[k].text # <<>>
    /\ \A k, l \in 1..Len(suggestions) :
           k # l => suggestions[k].text # suggestions[l].text

\* C7 (as claimed): no two spans recorded for rewriting share a character
\* position, whether they come from one accepted text or from two. Only
\* lists of distinct non-empty texts are looked at.
C7_SpansPairwiseNonOverlapping ==
    (TextDone /\ DistinctNonEmptyTexts) =>
        \A i, j \in 1..Len(redactions) :
            i # j => ~SharePosition(redactions[i].start, redactions[i].end,
                                    redactions[j].start, redactions[j].end)

\* the output is the input with exactly the match spans replaced by the marker
OutputIsSpansReplaced ==
    /\ redacted_content =
           ReplaceSpansFrom(content, MatchSpans(content, suggestions), 0, REDACTED)
    /\ origin =
           ReplaceSpansFrom(InputPositions(content),
                            MatchSpans(content, suggestions), 0, MarkerOrigin)

\* C8: whenever the match spans of the accepted list are pairwise disjoint
\* (each ends where or before the other starts), the output is the input with
\* exactly those spans each replaced by '[REDACTED]' and every character
\* outside them kept, in its original order.
C8_ApartSpansReplacedExactly ==
    (TextDone /\ \A x, y \in MatchSpans(content, suggestions) :
                     x # y => Apart(x[2], x[3], y[2], y[3]))
        => OutputIsSpansReplaced

\* C8 witness: two matches that lie apart were rewritten and an input
\* character outside them was kept.
C8_Witness ==
    /\ TextDone
    /\ \A x, y \in MatchSpans(content, suggestions) :
           x # y => Apart(x[2], x[3], y[2], y[3])
    /\ \E x, y \in MatchSpans(content, suggestions) :
           x[3] > x[2] /\ y[3] > y[2] /\ x[3] < y[2]
    /\ \E q \in 1..Len(origin) : origin[q] # 0

---------------------------------------------------------------------------
(* What the claims about the DOCX applier speak of.                        *)

DocxDone == pc = "docx_done"

\* paragraph p of the input holds some accepted text
MatchedParagraph(p) ==
    \E i \in 1..Len(suggestions) :
        ParagraphMatches(content[p], suggestions[i].text)

\* text is not empty and none of its characters is a character of the filler
PlainText(text) ==
    /\ text # <<>>
    /\ \A k \in 1..Len(text) : \A f \in 1..Len(FILLER) : text[k] # FILLER[f]

\* no rewritten paragraph, and no run of one, contains the accepted text
AbsentFromEveryRun(text) ==
    \A p \in 1..Len(redacted_content) :
        /\ ~Contains(ParagraphText(redacted_content[p]), text)
        /\ \A k \in 1..Len(redacted_content[p]) :
               ~Contains(redacted_content[p][k].text, text)

\* every run a matched paragraph had before the call has empty text
OldRunsOfMatchedEmptied ==
    /\ Len(redacted_content) = Len(content)
    /\ \A p \in 1..Len(content) :
           MatchedParagraph(p) =>
               /\ Len(redacted_content[p]) > Len(content[p])
               /\ \A k \in 1..Len(content[p]) :
                      redacted_content[p][k].text = <<>>

\* C5: after _redact_docx has rewritten the paragraphs, for every accepted
\* text t and every body paragraph, neither the paragraph's text nor any
\* single run's text contains t, and every run that a matched paragraph had
\* before the call has empty text. Looked at for accepted texts that are not
\* empty (the empty text is contained in every text).
C5_DocxNoAcceptedTextInAnyRun ==
    DocxDone =>
        /\ \A i \in 1..Len(suggestions) :
               suggestions[i].text # <<>> =>
                   AbsentFromEveryRun(suggestions[i].text)
        /\ OldRunsOfMatchedEmptied

\* What _redact_docx does keep: the same for every accepted text that is not
\* empty and holds no character of the filler.
DocxPlainAcceptedTextAbsent ==
    DocxDone =>
        /\ \A i \in 1..Len(suggestions) :
               PlainText(suggestions[i].text) =>
                   AbsentFromEveryRun(suggestions[i].text)
        /\ OldRunsOfMatchedEmptied

---------------------------------------------------------------------------
(* What the claims about one call of redact_document speak of.             *)

CallDone == pc = "done"

\* every accepted text of the call has a character, and no read or write of
\* the call failed
PlainCall ==
    /\ \A i \in 1..Len(suggestions) : suggestions[i].text # <<>>
    /\ ~io_failed

\* the call returned the output path to its caller
ReturnedPath == result.outcome = "returned" /\ result.value = output_path

\* file_handler.py line 108 and lines 115-116: the text a text or DOCX file
\* is read as
ExtractedText(file) ==
    IF file.kind = "docx"
    THEN Join([p \in 1..Len(file.data) |-> ParagraphText(file.data[p])], <<"\n">>)
    ELSE file.data

\* no accepted text occurs anywhere in the text of the input document
NoAcceptedTextOccurs ==
    \A i \in 1..Len(suggestions) :
        ~Contains(ExtractedText(fs_before[InputPath]), suggestions[i].text)

\* C1: for every supported format and every non-empty accepted list, when
\* redact_document returns the output path, the verification check has been
\* run on that output and has passed. Looked at on calls whose accepted texts
\* are not empty and in which no read or write fails.
C1_ReturnedPathWasVerified ==
    (/\ CallDone
     /\ PlainCall
     /\ file_ext \in SupportedFormats
     /\ suggestions # <<>>
     /\ ReturnedPath)
        => verification = "passed"

\* C2: whenever verification of the written output fails, redact_document
\* raises an error; it never completes normally after a failed verification.
\* Looked at on calls whose accepted texts are not empty and in which no read
\* or write fails, so that verification fails on extractable text alone.
C2_FailedVerificationRaises ==
    (CallDone /\ PlainCall /\ verification = "failed")
        => result.outcome = "raised"

\* C3: after a failed verification, when redact_document completes, no file
\* produced by this call exists at output_path. Looked at on calls whose
\* accepted texts are not empty, in which no read or write fails and at whose
\* output path no file was before.
C3_NoOutputFileAfterFailedVerification ==
    (/\ CallDone
     /\ PlainCall
     /\ ~Exists(fs_before, output_path)
     /\ verification = "failed")
        => ~Exists(fs, output_path)

\* C9: for text and DOCX inputs, if no accepted text occurs anywhere in the
\* document text and no read or write fails, redact_document returns the
\* output path and the output holds the input's content unchanged (for DOCX,
\* every paragraph's runs and text).
C9_NoMatchIsNoOp ==
    (/\ CallDone
     /\ file_ext \in {"txt", "docx"}
     /\ suggestions # <<>>
     /\ ~io_failed
     /\ NoAcceptedTextOccurs)
        => /\ ReturnedPath
           /\ fs[output_path] = fs_before[InputPath]

\* C9 witness: a call on a DOCX file of two paragraphs, none holding an
\* accepted text, has returned, over a file that was at the output path.
C9_Witness ==
    /\ CallDone
    /\ file_ext = "docx"
    /\ Len(fs_before[InputPath].data) = 2
    /\ suggestions # <<>>
    /\ ~io_failed
    /\ NoAcceptedTextOccurs
    /\ fs_before[output_path] = OldFile
    /\ ReturnedPath

\* C10: for every call of redact_document, whatever the format and the
\* output path and whether it succeeds or fails, the input file at file_path
\* holds after the call what it held before. Looked at on calls whose
\* accepted texts are not empty and in which no read or write fails.
C10_InputFileUnchanged ==
    (CallDone /\ PlainCall) => fs[InputPath] = fs_before[InputPath]

\* C11: whenever redact_document raises, for any format and at any step, the
\* filesystem at output_path is as before the call: no file where none was, and
\* a file that was there still there and unchanged. Looked at on calls whose
\* output path is not the input path and whose accepted texts are not empty.
C11_OutputPathAsBeforeWhenRaised ==
    (/\ CallDone
     /\ output_path # InputPath
     /\ \A i \in 1..Len(suggestions) : suggestions[i].text # <<>>
     /\ result.outcome = "raised")
        => fs[output_path] = fs_before[output_path]

---------------------------------------------------------------------------
(* What the claims about FileHandler speak of.                             *)

FileTyped == pc = "file_typed"

Accepted == validated = Returned(TRUE)

\* C12: validate_file accepts a path if and only if the file exists, its size
\* is at most 100 MiB and get_file_type returns a type for it; otherwise it
\* raises for the missing file, else for the size, else for the type, in that
\* order.
C12_ValidateFileAcceptsExactly ==
    FileTyped =>
        /\ Accepted <=> (/\ path_exists
                         /\ file_size <= SizeLimitMiB * BytesPerMiB
                         /\ file_type # "None")
        /\ ~path_exists =>
               validated = RaisedWith("FileNotFoundError", "File does not exist")
        /\ (path_exists /\ file_size > SizeLimitMiB * BytesPerMiB) =>
               validated = RaisedWith("ValueError", "File exceeds 100MB limit")
        /\ (path_exists /\ file_size <= SizeLimitMiB * BytesPerMiB
                /\ file_type = "None") =>
               validated = RaisedWith("ValueError", "Unsupported file type")

\* C12 witness: a file of exactly 100 MiB whose type is found by its extension
\* alone (.text, unknown to the built-in type table) has been accepted.
C12_Witness ==
    /\ FileTyped
    /\ path_exists
    /\ file_size = SizeLimitMiB * BytesPerMiB
    /\ path_exts = <<".text">>
    /\ mime_db = "builtin"
    /\ file_type = "txt"
    /\ Accepted

\* C13: type resolution uses the file's content first: an accepted file is
\* classified by get_file_type as the kind its content is, whatever its name.
C13_ClassifiedByContent ==
    (FileTyped /\ Accepted) => file_type = content_kind

\* C14: every path validate_file accepts is classified by get_file_type as
\* pdf, docx or txt, and redact_document dispatches on that same kind, so no
\* accepted path is an unsupported format for redact_document.
C14_AcceptedPathIsDispatched ==
    (FileTyped /\ Accepted) =>
        /\ file_type \in SupportedFormats
        /\ FormatOf(path_exts) = file_type

---------------------------------------------------------------------------
(* What the claims about _detect_columns speak of.                         *)

ColumnsDone == pc = "columns_done"

DistinctStarts == {page_words[i].x0 : i \in 1..Len(page_words)}

\* the words of the columns are the words of the page, each once
ColumnsHoldEveryWordOnce ==
    /\ SetSum([k \in 1..Len(columns) |-> Len(columns[k].words)], 1..Len(columns))
           = Len(page_words)
    /\ \A w \in WordBoxes :
           SetSum([k \in 1..Len(columns) |->
                      Cardinality({j \in 1..Len(columns[k].words) :
                                      columns[k].words[j] = w})],
                  1..Len(columns))
               = Cardinality({i \in 1..Len(page_words) : page_words[i] = w})

\* the x_range of one of the two columns ends where or before the other's
\* starts
RangesApart(c, d) ==
    \/ c.x_range[2] <= d.x_range[1]
    \/ d.x_range[2] <= c.x_range[1]

\* C17: for every non-empty page, the columns _detect_columns returns hold
\* every word of the page exactly once, and the x_range intervals of any two
\* distinct columns do not overlap. Looked at on pages for which columns are
\* returned.
C17_ColumnsPartitionIntoBands ==
    (ColumnsDone /\ page_words # <<>> /\ columns # <<>>) =>
        /\ ColumnsHoldEveryWordOnce
        /\ \A k, j \in 1..Len(columns) :
               k # j => RangesApart(columns[k], columns[j])

\* C18: for every non-empty page, _detect_columns returns between 1 and 3
\* columns, and exactly one column holding all the page's words when the words
\* have fewer than 2 distinct x0 positions.
C18_OneToThreeColumns ==
    (ColumnsDone /\ page_words # <<>>) =>
        /\ Len(columns) >= 1
        /\ Len(columns) <= max_columns
        /\ Cardinality(DistinctStarts) < 2 =>
               /\ Len(columns) = 1
               /\ columns[1].words = page_words


---------------------------------------------------------------------------
(* What the claims about analyze_document_layout speak of.                 *)

\* a call of analyze_document_layout has ended
LayoutEnded == pc = "layout_idle" /\ calls_made > 0

\* the layout recorded for a page that could not be parsed
EmptyLayout == [columns |-> <<>>, text_direction |-> "rtl", word_count |-> 0]

\* entry i of page_layouts is the layout of page i of the document
LayoutOfPage(i) ==
    /\ i <= Len(page_layouts)
    /\ IF pdf_pages[i].readable
       THEN \E labs \in LabelingChoices(XCoords(pdf_pages[i].words)) :
                page_layouts[i] = AnalyzePageLayout(pdf_pages[i].words, labs)
       ELSE page_layouts[i] = EmptyLayout

\* C15: if word extraction raises for a page of an N-page PDF,
\* analyze_document_layout still returns normally, with an empty layout
\* recorded for that page and the normal layout for every other page. Looked
\* at after the first call on an extractor.
C15_UnreadablePageGivesEmptyLayout ==
    (LayoutEnded /\ calls_made = 1) =>
        /\ layout_result.outcome = "returned"
        /\ Len(page_layouts) = Len(pdf_pages)
        /\ \A i \in 1..Len(pdf_pages) : LayoutOfPage(i)

\* C16: after any call of analyze_document_layout on an N-page document
\* returns, second and later calls on the same extractor included, the page
\* layout list has exactly N entries and entry i is the layout of page i.
C16_OneLayoutPerPageInOrder ==
    (LayoutEnded /\ layout_result.outcome = "returned") =>
        /\ Len(page_layouts) = Len(pdf_pages)
        /\ \A i \in 1..Len(pdf_pages) : LayoutOfPage(i)

---------------------------------------------------------------------------
(* What the claims about the accepted redaction list speak of.             *)

\* C19: after any sequence of operator actions, the accepted redaction list
\* never holds two entries with the same (text, kind) pair.
C19_NoTwoEntriesWithSamePair ==
    \A k, j \in 1..Len(custom_redactions) :
        (/\ custom_redactions[k].text = custom_redactions[j].text
         /\ custom_redactions[k].type = custom_redactions[j].type) => k = j

\* C20: computing contextual matches for a seed text leaves the accepted
\* redaction list unchanged, and the list changes only in a step of an accept
\* of a suggestion, of an add of one match or of a remove.
C20_MatchesNeverAutoAccepted ==
    [][/\ ProcessCustomRedaction => custom_redactions' = custom_redactions
       /\ custom_redactions' # custom_redactions =>
              (HandleSuggestionAcceptance \/ AddThisMatch \/ RemoveRedaction)]_vars

\* C20 witness: contextual matches have been computed for a seed text and are
\* on display, and the accepted list is still empty.
C20_Witness ==
    /\ contextual_matches # <<>>
    /\ current_text \in AppTexts
    /\ custom_redactions = <<>>

---------------------------------------------------------------------------
(* What the claims about a run of the application speak of.                *)

\* the run has ended, on any of its exit paths
RunEnded ==
    pc \in {"run_upload_error", "run_extract_error", "run_not_applied",
            "run_nothing_to_apply", "run_finished"}

\* C21: on every exit path of a run that wrote the temporary copy of the
\* upload (success, extraction error, redaction error, Apply not pressed),
\* the temporary input file and the temporary output file are deleted when
\* the run ends. Looked at on runs in which no write and no deletion failed.
C21_TempFilesDeletedOnEveryExit ==
    (RunEnded /\ ~io_failed) =>
        (~Exists(fs, InputPath) /\ ~Exists(fs, OtherPath))

\* what does hold: the exit through the finally clause leaves neither file
\* when no read, write or deletion of the run failed
RunFinishedLeavesNoFile ==
    (pc = "run_finished" /\ ~io_failed) =>
        (~Exists(fs, InputPath) /\ ~Exists(fs, OtherPath))

\* what does hold: from the call on, the session's list is the list the call
\* works on
SessionListIsCallList ==
    pc \in {"call", "pdf_pages", "pdf_verify", "done", "run_finished"} =>
        custom_redactions = suggestions

---------------------------------------------------------------------------
(* What the claims about the order of the PDF path speak of.               *)

\* verification is about to start or has run
VerificationStarted == pc = "pdf_verify" \/ verification # "not_run"

\* the pages of the input with every annotation of every page applied
FullyAppliedPages ==
    LET pages == fs_before[InputPath].data
    IN [k \in 1..Len(pages) |->
           ApplyPageRedactions(pages[k], PageMarks(pages[k], suggestions))]

\* C22: in the PDF path verification starts only after the redactions of
\* every page have been applied and the output has been saved: the file it
\* reads is the saved document with the annotations of all pages applied,
\* never one where a page's annotations are created and not yet applied.
C22_VerificationSeesFullyAppliedArtifact ==
    VerificationStarted =>
        /\ file_ext = "pdf"
        /\ pages_done = Len(fs_before[InputPath].data)
        /\ fs[output_path] = PdfFile(FullyAppliedPages, TRUE)

\* C22 witness: verification has run on a saved document of two pages, each
\* of which lost text to its own redactions.
C22_Witness ==
    /\ CallDone
    /\ verification # "not_run"
    /\ Len(fs_before[InputPath].data) = 2
    /\ \A k \in 1..2 : fs[output_path].data[k] # fs_before[InputPath].data[k]

---------------------------------------------------------------------------
(* What the claims about the order of the text applier's rewrites speak of.*)

\* every accepted text of the call is non-empty
NonEmptyTexts == \A k \in 1..Len(suggestions) : suggestions[k].text # <<>>

\* span x lies inside span y and is shorter
NestedIn(x, y) ==
    /\ y.start <= x.start
    /\ x.end <= y.end
    /\ x.end - x.start < y.end - y.start

\* C23: in the text applier, whenever an occurrence of a shorter accepted
\* text lies inside an occurrence of a longer accepted text, the longer
\* occurrence is rewritten before the shorter one (redactions is the list in
\* the order the rewrite loop takes it). Only lists of non-empty texts are
\* looked at.
C23_LongerOccurrenceRewrittenFirst ==
    (TextDone /\ NonEmptyTexts) =>
        \A i, j \in 1..Len(redactions) :
            NestedIn(redactions[j], redactions[i]) => i < j

\* what does hold: of two spans that start at the same offset the longer one
\* is rewritten first
SameStartLongerFirst ==
    TextDone =>
        \A i, j \in 1..Len(redactions) :
            (/\ redactions[i].start = redactions[j].start
             /\ redactions[i].end > redactions[j].end) => i < j

\* lines 465-467: the working buffer when the rewrite loop reaches span i
BufferBefore(i) ==
    ApplyRedactions(content, SubSeq(redactions, 1, i - 1), REDACTED)

\* the characters of buf at the Python positions [start, end)
Slice(buf, start, end) ==
    SubSeq(buf, Min(start, Len(buf)) + 1, Min(end, Len(buf)))

\* C24: in the back-to-front rewrite the offsets computed on the original
\* content stay valid: when a recorded span (start, end) is rewritten, the
\* working buffer holds at [start, end) exactly the accepted text that was
\* matched there. Only lists of distinct non-empty texts are looked at.
C24_OffsetsStayValid ==
    (TextDone /\ DistinctNonEmptyTexts) =>
        \A i \in 1..Len(redactions) :
            Slice(BufferBefore(i), redactions[i].start, redactions[i].end)
                = Slice(content, redactions[i].start, redactions[i].end)

\* what does hold: the offsets stay valid when no two spans share a position
OffsetsValidWhenApart ==
    (TextDone /\ \A i, j \in 1..Len(redactions) :
                     i # j => Apart(redactions[i].start, redactions[i].end,
                                    redactions[j].start, redactions[j].end)) =>
        \A i \in 1..Len(redactions) :
            Slice(BufferBefore(i), redactions[i].start, redactions[i].end)
                = Slice(content, redactions[i].start, redactions[i].end)

---------------------------------------------------------------------------
(* What the claims about reading zones and text blocks speak of.           *)

ZonesDone == pc = "zones_done"
BlocksDone == pc = "blocks_done"

\* the number of words in the first k groups (zones or blocks)
RECURSIVE WordsIn(_, _)
WordsIn(groups, k) ==
    IF k = 0 THEN 0 ELSE WordsIn(groups, k - 1) + Len(groups[k].words)

\* the group (zone or block) that holds word i of the sorted words
GroupOf(groups, i) ==
    CHOOSE k \in 1..Len(groups) :
        WordsIn(groups, k - 1) < i /\ i <= WordsIn(groups, k)

\* C25: in _identify_reading_zones, with the words in ascending top order, a
\* word starts a new reading zone if and only if its top minus the bottom of
\* the word right before it exceeds 10, also when an earlier, taller word of
\* the current zone extends lower.
C25_NewZoneIffGapToPrecedingWord ==
    ZonesDone =>
        LET sorted_words == SortedByTop(page_words)
        IN \A i \in 2..Len(sorted_words) :
               (GroupOf(zones, i) # GroupOf(zones, i - 1))
                   <=> (sorted_words[i].top - sorted_words[i - 1].bottom > ZoneGap)

\* what does hold: the zones hold the sorted words in order, and a word
\* starts a zone exactly when its top is more than 10 below the lowest
\* bottom of the zone before it
ZonesSplitAtGapToZoneBottom ==
    ZonesDone =>
        LET sorted_words == SortedByTop(page_words)
        IN /\ WordsIn(zones, Len(zones)) = Len(sorted_words)
           /\ \A i \in 1..Len(sorted_words) :
                  LET k == GroupOf(zones, i)
                  IN zones[k].words[i - WordsIn(zones, k - 1)] = sorted_words[i]
           /\ \A i \in 2..Len(sorted_words) :
                  (GroupOf(zones, i) # GroupOf(zones, i - 1))
                      <=> \A j \in 1..(i - 1) :
                              GroupOf(zones, j) = GroupOf(zones, i - 1) =>
                                  sorted_words[i].top - sorted_words[j].bottom
                                      > ZoneGap

\* words i and i + 1 of the sorted words lie on one line, the second to the
\* right of the first and at most 20 from it
SameLineNeighbours(sorted_words, i) ==
    /\ sorted_words[i].top = sorted_words[i + 1].top
    /\ sorted_words[i].bottom = sorted_words[i + 1].bottom
    /\ sorted_words[i].x1 <= sorted_words[i + 1].x0
    /\ sorted_words[i + 1].x0 - sorted_words[i].x1 <= BlockHorizontalGap

\* C26: in _extract_text_blocks, two words that are consecutive in (top,
\* left) order and lie on the same line (equal top, equal bottom) with a
\* horizontal gap of at most 20 from the first word's right edge to the
\* second word's left edge are placed in the same text block, whatever the
\* height of the line (heights above 5 included).
C26_SameLineNeighboursShareBlock ==
    BlocksDone =>
        LET sorted_words == SortedByTopLeft(page_words)
        IN \A i \in 1..(Len(sorted_words) - 1) :
               SameLineNeighbours(sorted_words, i) =>
                   GroupOf(text_blocks, i) = GroupOf(text_blocks, i + 1)

\* what does hold: such neighbours share a block when no word of the first
\* one's block so far has its bottom more than 5 from their top
LowLineNeighboursShareBlock ==
    BlocksDone =>
        LET sorted_words == SortedByTopLeft(page_words)
        IN \A i \in 1..(Len(sorted_words) - 1) :
               (/\ SameLineNeighbours(sorted_words, i)
                /\ \A j \in 1..i :
                       GroupOf(text_blocks, j) = GroupOf(text_blocks, i) =>
                           Abs(sorted_words[i + 1].top - sorted_words[j].bottom)
                               <= BlockVerticalGap)
                   => GroupOf(text_blocks, i) = GroupOf(text_blocks, i + 1)

\* the input positions that lie inside an occurrence of an accepted text
CoveredPositions ==
    UNION {UNION {Covered(p, suggestions[i].text) :
                  p \in Occurrences(content, suggestions[i].text)} :
           i \in 1..Len(suggestions)}

\* the input positions the output's characters come from, in output order
KeptPositions == SelectSeq(origin, LAMBDA q : q # 0)

\* the input positions outside every occurrence, in ascending order
UncoveredPositions ==
    SelectSeq(InputPositions(content), LAMBDA q : q \notin CoveredPositions)

\* C27: for the text applier no character of the input that lies inside an
\* occurrence of any accepted text survives in the output and no character
\* outside every occurrence is deleted: the input characters of the output
\* are exactly the uncovered ones, in their original order, also when
\* occurrences nest or overlap. Only lists of distinct non-empty texts are
\* looked at.
C27_ExactlyUncoveredCharactersKept ==
    (TextDone /\ DistinctNonEmptyTexts) => KeptPositions = UncoveredPositions

\* s can be had from t by leaving characters out
RECURSIVE IsSubsequence(_, _)
IsSubsequence(s, t) ==
    IF s = <<>> THEN TRUE
    ELSE IF t = <<>> THEN FALSE
    ELSE IF Head(s) = Head(t) THEN IsSubsequence(Tail(s), Tail(t))
    ELSE IsSubsequence(s, Tail(t))

IsFillerChar(c) == \E f \in 1..Len(FILLER) : c = FILLER[f]

\* the positions of text that lie inside an occurrence of an accepted text
DocxCoveredPositions(text) ==
    UNION {UNION {Covered(q, suggestions[i].text) :
                  q \in Occurrences(text, suggestions[i].text)} :
           i \in 1..Len(suggestions)}

\* the characters of text outside every occurrence, in order
DocxUncovered(text) ==
    LET covered == DocxCoveredPositions(text)
        keep == SelectSeq([k \in 1..Len(text) |-> k], LAMBDA k : k \notin covered)
    IN [k \in 1..Len(keep) |-> text[keep[k]]]

\* C28: for the DOCX applier every character of a paragraph's original text
\* that lies inside an occurrence of any accepted text is replaced by filler
\* in the output, whatever the order of the accepted list, also when
\* occurrences of two accepted texts overlap or an accepted text overlaps
\* itself: what the output paragraph holds besides filler is taken from the
\* uncovered characters. Looked at on paragraphs that hold no character of
\* the filler.
C28_DocxCoveredCharactersFilled ==
    DocxDone =>
        \A p \in 1..Len(content) :
            LET text == ParagraphText(content[p])
                out == ParagraphText(redacted_content[p])
            IN (\A k \in 1..Len(text) : ~IsFillerChar(text[k])) =>
                   IsSubsequence(SelectSeq(out, LAMBDA c : ~IsFillerChar(c)),
                                 DocxUncovered(text))

---------------------------------------------------------------------------
(* What the claim about the occurrence scan speaks of.                     *)

ScanDone == pc = "scan_done"

\* the texts whose scan is over
ScannedTexts ==
    SubSeq(suggestions, 1, Min(scan_index - 1, Len(suggestions)))

\* the spans recorded for the text being scanned for
SpansOfCurrentText ==
    Len(redactions) - Len(CollectRedactions(content, ScannedTexts))

\* at most len(content) + 1 spans are recorded for a text, and when the scan
\* is over the spans are those of the whole loop
SpansBounded ==
    /\ SpansOfCurrentText <= Len(content) + 1
    /\ \A i \in 1..Len(ScannedTexts) :
           Len(ScanText(content, suggestions[i].text, 0)) <= Len(content) + 1
    /\ ScanDone => redactions = CollectRedactions(content, suggestions)

\* C29: the occurrence scan of the text applier terminates for every content
\* and every accepted text, the empty string and texts whose occurrences
\* overlap themselves included, and records at most len(content) + 1 spans
\* per accepted text.
C29_ScanTerminatesWithBoundedSpans == []SpansBounded /\ <>ScanDone

\* C29 witness: a scan is over that recorded len(content) + 1 spans for the
\* empty text and two overlapping spans for another accepted text.
C29_Witness ==
    /\ ScanDone
    /\ \E i \in 1..Len(suggestions) :
           /\ suggestions[i].text = <<>>
           /\ Len(ScanText(content, <<>>, 0)) = Len(content) + 1
    /\ \E i, j \in 1..Len(redactions) :
           /\ redactions[i].start < redactions[j].start
           /\ redactions[j].start < redactions[i].end
           /\ redactions[i].end - redactions[i].start
                  = redactions[j].end - redactions[j].start

---------------------------------------------------------------------------
(* What the claim about the caller's list speaks of.                       *)

\* C30: redact_document leaves the caller's accepted redaction list as it
\* was: no step of a call, whatever the format and whether it succeeds or
\* fails, changes the entries of the list or their order (suggestions is the
\* list object the caller handed in). Only calls with non-empty texts and an
\* output path other than the input's are looked at.
C30_AcceptedListUnchanged ==
    [][(NonEmptyTexts /\ output_path # InputPath) =>
           suggestions' = suggestions]_vars

\* what does hold: the call changes at most the order of the list, and only
\* in the text applier
ListKeepsItsEntries ==
    [][/\ Len(suggestions') = Len(suggestions)
       /\ \A s \in {suggestions[k] : k \in 1..Len(suggestions)} :
              Cardinality({k \in 1..Len(suggestions) : suggestions[k] = s})
                  = Cardinality({k \in 1..Len(suggestions') : suggestions'[k] = s})
       /\ file_ext # "txt" => suggestions' = suggestions]_vars

====
